---------------------------- MODULE Spec2Model ----------------------------
(***************************************************************************)
(* A model of the Devialet IP Control integration                          *)
(* (custom_components/devialet): the HTTP client (devialet_api.py), the    *)
(* polling coordinator and the media player (media_player.py), the sensor  *)
(* and switch platforms (sensor.py, switch.py) and the service handlers    *)
(* (__init__.py).                                                          *)
(***************************************************************************)
EXTENDS Integers, Sequences, FiniteSets, TLC

VARIABLES
    call,                 \* the last client call: request, the device's answer, outcome
    hass_data,            \* hass.data[DOMAIN][entry_id].get("coordinator")
    setup,                \* each platform's async_setup_entry: where it stands
    entities,             \* the entities added, each with the coordinator it reads
    exists,               \* the coordinators constructed
    data,                 \* coordinator.data
    data_stamp,           \* for each field of coordinator.data: when it was read
    last_update_success,  \* coordinator.last_update_success
    fetch,                \* the refresh in progress of each coordinator
    cycles,               \* the fetch cycles each coordinator has started
    device_version,       \* the number of commands the device has received
    night_mode_available, \* DevialetMediaPlayer._night_mode_available
    source_mapping,       \* DevialetMediaPlayer._source_mapping
    cmd,                  \* the command handler in progress, or the last one
    refresh_requested,    \* async_request_refresh was called and no refresh began
    domain_data,          \* hass.data[DOMAIN]: the stored data of each entry that is set up
    options,              \* entry.options of each config entry
    update_listeners,     \* the update listeners registered on each entry
    on_unload,            \* the callbacks the host runs when it unloads each entry
    loaded,               \* the entries the host has set up
    changed,              \* the options updates made, and what the last one ran
    invoked               \* the last service invocation and the device calls it made

clientVars == <<call>>
setupVars == <<hass_data, setup, entities>>
coordVars == <<exists, data, data_stamp, last_update_success, fetch, cycles>>
deviceVars == <<device_version>>
playerVars == <<night_mode_available, source_mapping>>
cmdVars == <<cmd, refresh_requested>>
entryVars == <<domain_data, options, update_listeners, on_unload, loaded, changed, invoked>>
vars == <<call, hass_data, setup, entities, exists, data, data_stamp,
          last_update_success, fetch, cycles, device_version,
          night_mode_available, source_mapping, cmd, refresh_requested,
          domain_data, options, update_listeners, on_unload, loaded, changed, invoked>>

-----------------------------------------------------------------------------
(* Python values.  A value is a record [t |-> its type, v |-> its payload]: *)
(*   dict  a function from its keys (strings) to values                     *)
(*   list  a sequence of values                                             *)
(*   str   the sequence of its characters                                   *)
(*   int   the integer                                                      *)
(* JSON null decodes to None.                                               *)

None == [t |-> "None", v |-> <<>>]

Dict(f) == [t |-> "dict", v |-> f]

EmptyDict == Dict(<<>>)

List(s) == [t |-> "list", v |-> s]

Str(chars) == [t |-> "str", v |-> chars]

Number(n) == [t |-> "int", v |-> n]

\* Equality of two values, the type compared first.
PyEq(a, b) == a.t = b.t /\ a.v = b.v

\* bool(value): None, 0 and the empty dict, list and str are false.
Truthy(a) ==
    CASE a.t = "None" -> FALSE
      [] a.t = "int" -> a.v # 0
      [] a.t = "dict" -> DOMAIN a.v # {}
      [] OTHER -> Len(a.v) > 0

\* The characters of the string literals the code names.
Chars(s) ==
    CASE s = "error" -> <<"e", "r", "r", "o", "r">>
      [] s = "nightMode" -> <<"n", "i", "g", "h", "t", "M", "o", "d", "e">>
      [] s = "ok" -> <<"o", "k">>
      [] s = "terrors" -> <<"t", "e", "r", "r", "o", "r", "s">>
      [] s = "Phantom" -> <<"P", "h", "a", "n", "t", "o", "m">>
      [] s = "playing" -> <<"p", "l", "a", "y", "i", "n", "g">>
      [] s = "on" -> <<"o", "n">>
      [] s = "off" -> <<"o", "f", "f">>
      [] s = "flat" -> <<"f", "l", "a", "t">>
      [] s = "spotifyconnect" ->
            <<"s", "p", "o", "t", "i", "f", "y", "c", "o", "n", "n", "e", "c", "t">>
      [] s = "SpotifyConnect" ->
            <<"S", "p", "o", "t", "i", "f", "y", "C", "o", "n", "n", "e", "c", "t">>
      [] s = "Spotify Connect" ->
            <<"S", "p", "o", "t", "i", "f", "y", " ", "C", "o", "n", "n", "e", "c", "t">>
      [] s = "airplay2" -> <<"a", "i", "r", "p", "l", "a", "y", "2">>
      [] s = "AirPlay" -> <<"A", "i", "r", "P", "l", "a", "y">>
      [] s = "upnp" -> <<"u", "p", "n", "p">>
      [] s = "UPNP" -> <<"U", "P", "N", "P">>
      [] s = "UPnP/DLNA" -> <<"U", "P", "n", "P", "/", "D", "L", "N", "A">>
      [] s = "optical" -> <<"o", "p", "t", "i", "c", "a", "l">>
      [] s = "Optical" -> <<"O", "p", "t", "i", "c", "a", "l">>
      [] s = "bluetooth" -> <<"b", "l", "u", "e", "t", "o", "o", "t", "h">>
      [] s = "Bluetooth" -> <<"B", "l", "u", "e", "t", "o", "o", "t", "h">>
      [] s = "raat" -> <<"r", "a", "a", "t">>
      [] s = "RAAT" -> <<"R", "A", "A", "T">>
      [] s = "Phono" -> <<"P", "h", "o", "n", "o">>
      [] s = "voice" -> <<"v", "o", "i", "c", "e">>
      [] s = "custom" -> <<"c", "u", "s", "t", "o", "m">>
      [] s = "night_mode" -> <<"n", "i", "g", "h", "t", "_", "m", "o", "d", "e">>
      [] s = "Flat" -> <<"F", "l", "a", "t">>
      [] s = "Voice" -> <<"V", "o", "i", "c", "e">>
      [] s = "Custom" -> <<"C", "u", "s", "t", "o", "m">>
      [] s = "Night Mode" -> <<"N", "i", "g", "h", "t", " ", "M", "o", "d", "e">>
      [] s = "paused" -> <<"p", "a", "u", "s", "e", "d">>
      [] s = "stopped" -> <<"s", "t", "o", "p", "p", "e", "d">>
      [] s = "Unknown" -> <<"U", "n", "k", "n", "o", "w", "n">>
      [] s = "Song" -> <<"S", "o", "n", "g">>
      [] s = "Band" -> <<"B", "a", "n", "d">>
      [] s = "Disc" -> <<"D", "i", "s", "c">>
      [] s = "0.0.0" -> <<"0", ".", "0", ".", "0">>
      [] s = "2.16.0" -> <<"2", ".", "1", "6", ".", "0">>
      [] s = "2.16" -> <<"2", ".", "1", "6">>
      [] s = "2.17.1" -> <<"2", ".", "1", "7", ".", "1">>
      [] s = "2.9.0" -> <<"2", ".", "9", ".", "0">>
      [] s = "2.2.0" -> <<"2", ".", "2", ".", "0">>
      [] s = "10.0.0" -> <<"1", "0", ".", "0", ".", "0">>
      [] s = "id1" -> <<"i", "d", "1">>
      [] s = "id2" -> <<"i", "d", "2">>
      [] OTHER -> <<s>>

\* An outcome of a Python call: a returned value, or an exception raised.
Return(val) == [exc |-> "none", ret |-> val]

Raise(e) == [exc |-> e, ret |-> None]

\* requests.RequestException and its subclasses.
RequestException == {"Timeout", "ConnectionError"}

\* Python's  s in container  for a str s: key of a dict, element of a list,
\* substring of a str; any other operand is not iterable (TypeError).
In(s, container) ==
    CASE container.t = "dict" -> [exc |-> "none", val |-> s \in DOMAIN container.v]
      [] container.t = "list" ->
            [exc |-> "none",
             val |-> \E i \in 1..Len(container.v) : PyEq(container.v[i], Str(Chars(s)))]
      [] container.t = "str" ->
            [exc |-> "none",
             val |-> \E i \in 1..Len(container.v) :
                        /\ i + Len(Chars(s)) - 1 <= Len(container.v)
                        /\ SubSeq(container.v, i, i + Len(Chars(s)) - 1) = Chars(s)]
      [] OTHER -> [exc |-> "TypeError", val |-> FALSE]

-----------------------------------------------------------------------------
(* The device: what one HTTP exchange can give.                            *)

HTTP_OK == 200

StatusCodes == {HTTP_OK, 404, 500}

\* transport: "ok" when a response arrived, else the exception requests raises.
Transports == {"ok"} \cup RequestException

\* A body that is not JSON: Response.json() raises ValueError on it.
NotJson == [t |-> "notjson", v |-> <<>>]

Bodies ==
    { Dict([volume |-> Number(57)]),
      Dict([availableFeatures |-> List(<<Str(Chars("nightMode"))>>)]),
      Dict([error |-> Dict([code |-> Number(1)])]),
      EmptyDict,
      List(<<>>),
      List(<<Str(Chars("error"))>>),
      Str(Chars("ok")),
      Str(Chars("terrors")),
      Number(5),
      None,
      NotJson }

Responses == [status_code : StatusCodes, body : Bodies]

\* Response.json(): the decoded body, or ValueError.
json(response) ==
    IF response.body.t = "notjson" THEN Raise("ValueError") ELSE Return(response.body)

-----------------------------------------------------------------------------
(* DevialetAPI                                                             *)

\* The endpoints of const.py, by the name of their constant.
GetEndpoints ==
    {"API_DEVICES_CURRENT", "API_SYSTEMS_CURRENT", "API_CURRENT_SOURCE", "API_VOLUME",
     "API_SOURCES", "API_NIGHT_MODE", "API_EQUALIZER"}

PostEndpoints ==
    {"API_VOLUME", "API_VOLUME_UP", "API_VOLUME_DOWN", "API_PLAY", "API_PAUSE",
     "API_MUTE", "API_UNMUTE", "API_NEXT", "API_PREVIOUS", "API_PLAY_SOURCE",
     "API_NIGHT_MODE", "API_EQUALIZER"}

\* _handle_response without the test for the vendor's error payload.
handle_response_NoErrorCheck(response) ==
    IF response.status_code # HTTP_OK
    THEN Return(None)
    ELSE LET decoded == json(response)
         IN  IF decoded.exc = "ValueError" THEN Return(None) ELSE Return(decoded.ret)

\* DevialetAPI._handle_response
handle_response(response) ==
    IF response.status_code # HTTP_OK
    THEN Return(None)
    ELSE LET decoded == json(response)
         IN  IF decoded.exc = "ValueError"
             THEN Return(None)                            \* except ValueError
             ELSE LET err == In("error", decoded.ret)
                  IN  IF err.exc # "none"
                      THEN Raise(err.exc)                 \* no handler catches it
                      ELSE IF err.val THEN Return(None) ELSE Return(decoded.ret)

\* DevialetAPI.get: requests.get, then _handle_response, both inside
\* try ... except requests.RequestException.
get(transport, response) ==
    IF transport \in RequestException
    THEN Return(None)
    ELSE LET r == handle_response(response)
         IN  IF r.exc \in RequestException THEN Return(None) ELSE r

\* DevialetAPI.post: requests.post, then _handle_response, inside the same try.
post(transport, response) ==
    IF transport \in RequestException
    THEN Return(None)
    ELSE LET r == handle_response(response)
         IN  IF r.exc \in RequestException THEN Return(None) ELSE r

\* No response arrived (the transport failed).
NoResponse == [status_code |-> 0, body |-> NotJson]

\* What one HTTP exchange gives: a transport failure, or a response.
Exchanges ==
    [transport : RequestException, response : {NoResponse}]
        \cup [transport : {"ok"}, response : Responses]

NoCall ==
    [method |-> "none", endpoint |-> "none", transport |-> "ok",
     response |-> NoResponse, outcome |-> Return(None)]

\* One call of DevialetAPI.get on an endpoint.
ClientGet(endpoint, x) ==
    /\ call' = [method |-> "GET", endpoint |-> endpoint, transport |-> x.transport,
                response |-> x.response, outcome |-> get(x.transport, x.response)]
    /\ UNCHANGED <<setupVars, coordVars, deviceVars, playerVars, entryVars, cmdVars>>

\* One call of DevialetAPI.post on an endpoint.
ClientPost(endpoint, x) ==
    /\ call' = [method |-> "POST", endpoint |-> endpoint, transport |-> x.transport,
                response |-> x.response, outcome |-> post(x.transport, x.response)]
    /\ UNCHANGED <<setupVars, coordVars, deviceVars, playerVars, entryVars, cmdVars>>

-----------------------------------------------------------------------------
(* The device's answers to the seven polled endpoints.                     *)

\* The keys of the snapshot, in the order _async_update_data fetches them.
Keys ==
    <<"device_info", "system_info", "playback", "volume", "sources",
      "night_mode", "equalizer">>

KeySet == {Keys[i] : i \in 1..Len(Keys)}

\* The endpoint the getter behind each key reads.
KeyEndpoint(key) ==
    CASE key = "device_info" -> "API_DEVICES_CURRENT"
      [] key = "system_info" -> "API_SYSTEMS_CURRENT"
      [] key = "playback" -> "API_CURRENT_SOURCE"
      [] key = "volume" -> "API_VOLUME"
      [] key = "sources" -> "API_SOURCES"
      [] key = "night_mode" -> "API_NIGHT_MODE"
      [] key = "equalizer" -> "API_EQUALIZER"

SystemInfoNight == Dict([availableFeatures |-> List(<<Str(Chars("nightMode"))>>)])

SystemInfoPlain == Dict([availableFeatures |-> List(<<>>)])

\* A well-formed answer of the device for each key.
OkBody(key) ==
    CASE key = "device_info" -> Dict([model |-> Str(Chars("Phantom"))])
      [] key = "system_info" -> SystemInfoNight
      [] key = "playback" -> Dict([playingState |-> Str(Chars("playing"))])
      [] key = "volume" -> Dict([volume |-> Number(57)])
      [] key = "sources" -> Dict([sources |-> List(<<>>)])
      [] key = "night_mode" -> Dict([nightMode |-> Str(Chars("off"))])
      [] key = "equalizer" -> Dict([preset |-> Str(Chars("flat"))])

Good(body) == [transport |-> "ok", response |-> [status_code |-> HTTP_OK, body |-> body]]

TimedOut == [transport |-> "Timeout", response |-> NoResponse]

\* The exchanges of a poll while the platforms are set up: system_info with
\* and without night mode, timed out, or a number; any other endpoint good or
\* a number.
SetupExchanges(key) ==
    IF key = "system_info"
    THEN {Good(SystemInfoNight), Good(SystemInfoPlain), TimedOut, Good(Number(5))}
    ELSE {Good(OkBody(key)), Good(Number(5))}

SourcesBody ==
    Dict([sources |->
            List(<<Dict([sourceId |-> Str(Chars("id1")), type |-> Str(Chars("SpotifyConnect"))]),
                   Dict([sourceId |-> Str(Chars("id2")), type |-> Str(Chars("Bluetooth"))])>>)])

\* The exchanges of a poll while commands are given: every endpoint answers
\* well, system_info with or without night mode.
CommandPollExchanges(key) ==
    CASE key = "system_info" -> {Good(SystemInfoNight), Good(SystemInfoPlain)}
      [] key = "sources" -> {Good(SourcesBody)}
      [] OTHER -> {Good(OkBody(key))}

\* The exchanges of a command: done, timed out, or a 200 whose body is the
\* JSON null.
CommandExchanges == {Good(EmptyDict), TimedOut, Good(None)}

\* The exchanges a poll of one endpoint draws from: a good answer, a
\* time-out, and a 200 whose body is a JSON number.
PollExchanges(key) == {Good(OkBody(key)), TimedOut, Good(Number(5))}

-----------------------------------------------------------------------------
(* DevialetDataUpdateCoordinator, and the DataUpdateCoordinator it extends. *)

Coordinators == {"media_player", "sensor"}

Platforms == {"media_player", "sensor", "switch"}

\* The fetch cycles one coordinator may start in the model.
MaxCycles == 2

\* pc = 0: no refresh in progress; pc = k: the k-th getter is called next.
\* local is the dict _async_update_data builds; first: the refresh is the
\* async_config_entry_first_refresh of a platform's setup.
Idle == [pc |-> 0, local |-> <<>>, stamp |-> <<>>, first |-> FALSE]

Started(first) == [pc |-> 1, local |-> <<>>, stamp |-> <<>>, first |-> first]

Fetching(c) == fetch[c].pc # 0

\* dict.get(key, default)
Get(d, key, default) == IF key \in DOMAIN d.v THEN d.v[key] ELSE default

\* container[key] for a str key: the value of a dict; KeyError when the key is
\* missing; TypeError on any other container.
Subscript(container, key) ==
    IF container.t = "dict"
    THEN IF key \in DOMAIN container.v THEN Return(container.v[key]) ELSE Raise("KeyError")
    ELSE Raise("TypeError")

\* d[key] = value, on the mapping under construction.
StoreField_SkipAbsent(local, key, value) ==
    IF value.t = "None"
    THEN local
    ELSE [k \in DOMAIN local \cup {key} |-> IF k = key THEN value ELSE local[k]]

\* _async_update_data:  data["<key>"] = await ...executor_job(self.api.get_...)
StoreField(local, key, value) ==
    [k \in DOMAIN local \cup {key} |-> IF k = key THEN value ELSE local[k]]

\* History: the cycle in which each field of a dict was read.
Stamped(stamp, key, cycle) ==
    [k \in DOMAIN stamp \cup {key} |->
        IF k = key THEN [cycle |-> cycle] ELSE stamp[k]]

\* coordinator.data written on every call, not on return.
AfterCall_InPlace(current, fetched, last) == fetched

\* What coordinator.data is after a getter returned: _async_update_data
\* fills a local dict and returns it after the last getter; until then the
\* attribute keeps what it held.
AfterCall(current, fetched, last) == IF last THEN fetched ELSE current

\* available derived from the presence of data instead of the last refresh.
available_HasData(c) == Truthy(data[c])

\* DevialetMediaPlayer.available, of the media player reading coordinator c.
available(c) == last_update_success[c]

\* The entities that listen to coordinator c.
Listeners(c) == {e \in entities : e.coordinator = c}

SensorKinds ==
    {"sensor.volume", "sensor.playback", "sensor.artist", "sensor.track",
     "sensor.album", "sensor.stream_info"}

\* media_player.async_setup_entry after its first refresh: the coordinator
\* is stored in hass.data and the media player added; a failed first refresh
\* raises ConfigEntryNotReady out of the setup.
MediaPlayerSetupResume(ok) ==
    IF ok
    THEN /\ hass_data' = "media_player"
         /\ entities' = entities \cup {[kind |-> "media_player", coordinator |-> "media_player"]}
         /\ setup' = [setup EXCEPT !["media_player"] = "done"]
    ELSE /\ setup' = [setup EXCEPT !["media_player"] = "not_ready"]
         /\ UNCHANGED <<hass_data, entities>>

\* sensor.async_setup_entry after the first refresh of its own coordinator.
SensorSetupResume(ok) ==
    IF ok
    THEN /\ entities' = entities \cup [kind : SensorKinds, coordinator : {"sensor"}]
         /\ setup' = [setup EXCEPT !["sensor"] = "done"]
         /\ UNCHANGED hass_data
    ELSE /\ setup' = [setup EXCEPT !["sensor"] = "not_ready"]
         /\ UNCHANGED <<hass_data, entities>>

\* The end of a refresh: a first refresh resumes the setup that awaits it.
RefreshEnds(c, ok) ==
    IF fetch[c].first
    THEN IF c = "media_player" THEN MediaPlayerSetupResume(ok) ELSE SensorSetupResume(ok)
    ELSE UNCHANGED setupVars

\* A coordinator without an update timer.
TimerRefresh_Never(c) ==
    /\ FALSE
    /\ UNCHANGED vars

\* The update timer fires: DataUpdateCoordinator schedules it while the
\* coordinator has listeners, and a refresh in progress holds no timer.
TimerRefresh(c) ==
    /\ exists[c]
    /\ ~Fetching(c)
    /\ Listeners(c) # {}
    /\ cycles[c] < MaxCycles
    /\ fetch' = [fetch EXCEPT ![c] = Started(FALSE)]
    /\ cycles' = [cycles EXCEPT ![c] = @ + 1]
    /\ UNCHANGED <<clientVars, setupVars, deviceVars, playerVars, entryVars, cmdVars, exists, data, data_stamp,
                   last_update_success>>

\* _async_update_data that starts over from the first getter when one has
\* raised.
FetchStep_StartAgain(c, x) ==
    /\ Fetching(c)
    /\ LET k == fetch[c].pc
           key == Keys[k]
           outcome == get(x.transport, x.response)
           local == StoreField(fetch[c].local, key, outcome.ret)
           stamp == Stamped(fetch[c].stamp, key, cycles[c])
           last == k = Len(Keys)
       IN  /\ call' = [method |-> "GET", endpoint |-> KeyEndpoint(key),
                       transport |-> x.transport, response |-> x.response,
                       outcome |-> outcome]
           /\ IF outcome.exc # "none"
              THEN /\ fetch' = [fetch EXCEPT ![c] = Started(@.first)]
                   /\ UNCHANGED <<last_update_success, data, data_stamp, setupVars>>
              ELSE /\ data' = [data EXCEPT ![c] = AfterCall(@, Dict(local), last)]
                   /\ data_stamp' = [data_stamp EXCEPT ![c] = AfterCall(@, stamp, last)]
                   /\ IF last
                      THEN /\ last_update_success' = [last_update_success EXCEPT ![c] = TRUE]
                           /\ fetch' = [fetch EXCEPT ![c] = Idle]
                           /\ RefreshEnds(c, TRUE)
                      ELSE /\ fetch' = [fetch EXCEPT ![c] = [@ EXCEPT !.pc = k + 1,
                                                               !.local = local,
                                                               !.stamp = stamp]]
                           /\ UNCHANGED <<last_update_success, setupVars>>
    /\ UNCHANGED <<deviceVars, playerVars, entryVars, cmdVars, exists, cycles>>

\* One getter of _async_update_data runs in the executor and the coroutine
\* resumes with its outcome.  An exception leaves _async_update_data: the
\* refresh records the failure and keeps coordinator.data.  After the last
\* getter the dict is returned and becomes coordinator.data.
FetchStep(c, x) ==
    /\ Fetching(c)
    /\ LET k == fetch[c].pc
           key == Keys[k]
           outcome == get(x.transport, x.response)
           local == StoreField(fetch[c].local, key, outcome.ret)
           stamp == Stamped(fetch[c].stamp, key, cycles[c])
           last == k = Len(Keys)
       IN  /\ call' = [method |-> "GET", endpoint |-> KeyEndpoint(key),
                       transport |-> x.transport, response |-> x.response,
                       outcome |-> outcome]
           /\ IF outcome.exc # "none"
              THEN /\ last_update_success' = [last_update_success EXCEPT ![c] = FALSE]
                   /\ fetch' = [fetch EXCEPT ![c] = Idle]
                   /\ UNCHANGED <<data, data_stamp>>
                   /\ RefreshEnds(c, FALSE)
              ELSE /\ data' = [data EXCEPT ![c] = AfterCall(@, Dict(local), last)]
                   /\ data_stamp' = [data_stamp EXCEPT ![c] = AfterCall(@, stamp, last)]
                   /\ IF last
                      THEN /\ last_update_success' = [last_update_success EXCEPT ![c] = TRUE]
                           /\ fetch' = [fetch EXCEPT ![c] = Idle]
                           /\ RefreshEnds(c, TRUE)
                      ELSE /\ fetch' = [fetch EXCEPT ![c] = [@ EXCEPT !.pc = k + 1,
                                                               !.local = local,
                                                               !.stamp = stamp]]
                           /\ UNCHANGED <<last_update_success, setupVars>>
    /\ UNCHANGED <<deviceVars, playerVars, entryVars, cmdVars, exists, cycles>>

-----------------------------------------------------------------------------
(* The platforms' async_setup_entry.                                       *)

\* media_player.async_setup_entry up to its first await: it constructs a
\* coordinator and starts the first refresh.
MediaPlayerSetup ==
    /\ setup["media_player"] = "pending"
    /\ setup' = [setup EXCEPT !["media_player"] = "first_refresh"]
    /\ exists' = [exists EXCEPT !["media_player"] = TRUE]
    /\ fetch' = [fetch EXCEPT !["media_player"] = Started(TRUE)]
    /\ cycles' = [cycles EXCEPT !["media_player"] = @ + 1]
    /\ UNCHANGED <<clientVars, deviceVars, playerVars, entryVars, cmdVars, hass_data, entities, data, data_stamp,
                   last_update_success>>

\* sensor.async_setup_entry that adds its sensors without awaiting the first
\* refresh of the coordinator it constructs.
SensorSetup_NoFirstRefresh ==
    /\ setup["sensor"] = "pending"
    /\ LET c == IF hass_data = "none" THEN "sensor" ELSE hass_data
       IN  /\ exists' = [exists EXCEPT ![c] = TRUE]
           /\ entities' = entities \cup [kind : SensorKinds, coordinator : {c}]
    /\ setup' = [setup EXCEPT !["sensor"] = "done"]
    /\ UNCHANGED <<clientVars, deviceVars, playerVars, entryVars, cmdVars, hass_data, data, data_stamp,
                   last_update_success, fetch, cycles>>

\* sensor.async_setup_entry up to its first await: it takes the coordinator
\* stored in hass.data and adds the sensors; when none is stored it
\* constructs a coordinator of its own and starts its first refresh.
SensorSetup ==
    /\ setup["sensor"] = "pending"
    /\ IF hass_data = "none"
       THEN /\ setup' = [setup EXCEPT !["sensor"] = "first_refresh"]
            /\ exists' = [exists EXCEPT !["sensor"] = TRUE]
            /\ fetch' = [fetch EXCEPT !["sensor"] = Started(TRUE)]
            /\ cycles' = [cycles EXCEPT !["sensor"] = @ + 1]
            /\ UNCHANGED entities
       ELSE /\ setup' = [setup EXCEPT !["sensor"] = "done"]
            /\ entities' = entities \cup [kind : SensorKinds, coordinator : {hass_data}]
            /\ UNCHANGED <<exists, fetch, cycles>>
    /\ UNCHANGED <<clientVars, deviceVars, playerVars, entryVars, cmdVars, hass_data, data, data_stamp,
                   last_update_success>>

\* The test of switch.async_setup_entry on the stored coordinator's data:
\*   "availableFeatures" in system_info
\*       and "nightMode" in system_info["availableFeatures"]
\* with system_info = coordinator.data.get("system_info", {}).
HasNightMode(snapshot) ==
    LET system_info == Get(snapshot, "system_info", EmptyDict)
        has == In("availableFeatures", system_info)
    IN  IF has.exc # "none" THEN [exc |-> has.exc, val |-> FALSE]
        ELSE IF ~has.val THEN [exc |-> "none", val |-> FALSE]
        ELSE LET features == Subscript(system_info, "availableFeatures")
             IN  IF features.exc # "none" THEN [exc |-> features.exc, val |-> FALSE]
                 ELSE In("nightMode", features.ret)

\* switch.async_setup_entry: it has no await.  Without a stored coordinator,
\* or without data, it adds nothing.
SwitchSetup ==
    /\ setup["switch"] = "pending"
    /\ IF hass_data # "none" /\ Truthy(data[hass_data])
       THEN LET night == HasNightMode(data[hass_data])
            IN  IF night.exc # "none"
                THEN /\ setup' = [setup EXCEPT !["switch"] = "raised"]
                     /\ UNCHANGED entities
                ELSE /\ setup' = [setup EXCEPT !["switch"] = "done"]
                     /\ entities' =
                            IF night.val
                            THEN entities \cup {[kind |-> "switch", coordinator |-> hass_data]}
                            ELSE entities
       ELSE /\ setup' = [setup EXCEPT !["switch"] = "done"]
            /\ UNCHANGED entities
    /\ UNCHANGED <<clientVars, deviceVars, playerVars, entryVars, cmdVars, coordVars, hass_data>>

-----------------------------------------------------------------------------
(* DevialetMediaPlayer: the properties that keep state.                    *)

UpperCase ==
    <<"A", "B", "C", "D", "E", "F", "G", "H", "I", "J", "K", "L", "M",
      "N", "O", "P", "Q", "R", "S", "T", "U", "V", "W", "X", "Y", "Z">>

LowerCase ==
    <<"a", "b", "c", "d", "e", "f", "g", "h", "i", "j", "k", "l", "m",
      "n", "o", "p", "q", "r", "s", "t", "u", "v", "w", "x", "y", "z">>

\* str.lower() that leaves the string as it is.
Lower_Unchanged(chars) == chars

\* str.lower()
Lower(chars) ==
    [i \in 1..Len(chars) |->
        IF \E j \in 1..Len(UpperCase) : UpperCase[j] = chars[i]
        THEN LowerCase[CHOOSE j \in 1..Len(UpperCase) : UpperCase[j] = chars[i]]
        ELSE chars[i]]

\* _format_source_name that looks the type up as it is spelled.
format_source_name_CaseSensitive(source_type) ==
    CASE source_type = Chars("spotifyconnect") -> Chars("Spotify Connect")
      [] source_type = Chars("airplay2") -> Chars("AirPlay")
      [] source_type = Chars("upnp") -> Chars("UPnP/DLNA")
      [] source_type = Chars("optical") -> Chars("Optical")
      [] OTHER -> source_type

\* DevialetMediaPlayer._format_source_name
format_source_name(source_type) ==
    LET lowered == Lower(source_type)
    IN  CASE lowered = Chars("spotifyconnect") -> Chars("Spotify Connect")
          [] lowered = Chars("airplay2") -> Chars("AirPlay")
          [] lowered = Chars("upnp") -> Chars("UPnP/DLNA")
          [] lowered = Chars("optical") -> Chars("Optical")
          [] OTHER -> source_type

\* The loop over the raw sources that keeps the first sourceId entered under
\* a name.
RECURSIVE MapSources_FirstWins(_, _, _)
MapSources_FirstWins(mapping, raw, i) ==
    IF i > Len(raw)
    THEN mapping
    ELSE LET source_type == Get(raw[i], "type", None)
             keep == /\ Truthy(source_type)
                     /\ Lower(source_type.v) \notin {Chars("bluetooth"), Chars("raat")}
             name == format_source_name(source_type.v)
             entered == [n \in DOMAIN mapping \cup {name} |->
                            IF n \in DOMAIN mapping THEN mapping[n]
                            ELSE Get(raw[i], "sourceId", None)]
         IN  MapSources_FirstWins(IF keep THEN entered ELSE mapping, raw, i + 1)

\* The loop of source_list over the raw sources from the i-th on: every
\* source with a type other than bluetooth and raat is entered in the mapping
\* under its formatted name.
RECURSIVE MapSources(_, _, _)
MapSources(mapping, source_list, i) ==
    IF i > Len(source_list)
    THEN mapping
    ELSE LET source == source_list[i]
             source_type == Get(source, "type", None)
             keep == /\ Truthy(source_type)
                     /\ Lower(source_type.v) \notin {Chars("bluetooth"), Chars("raat")}
             name == format_source_name(source_type.v)
             entered == [n \in DOMAIN mapping \cup {name} |->
                            IF n = name THEN Get(source, "sourceId", None) ELSE mapping[n]]
         IN  MapSources(IF keep THEN entered ELSE mapping, source_list, i + 1)

\* The media player's source_list property is read: it writes
\* _source_mapping from the raw source list of the current snapshot.
ReadSourceList ==
    /\ [kind |-> "media_player", coordinator |-> "media_player"] \in entities
    /\ Truthy(data["media_player"])
    /\ Truthy(Get(data["media_player"], "sources", None))
    /\ LET sources == data["media_player"].v["sources"]
           source_list == Get(sources, "sources", List(<<>>))
       IN  /\ sources.t = "dict"
           /\ source_list.t = "list"
           /\ \A i \in 1..Len(source_list.v) :
                 /\ source_list.v[i].t = "dict"
                 /\ Get(source_list.v[i], "type", None).t \in {"None", "str"}
           /\ source_mapping' = MapSources(source_mapping, source_list.v, 1)
    /\ UNCHANGED <<clientVars, setupVars, coordVars, deviceVars, cmdVars, entryVars,
                   night_mode_available>>

\* The media player's supported_features property is read: it sets
\* _night_mode_available when the current snapshot lists nightMode.
ReadSupportedFeatures ==
    /\ [kind |-> "media_player", coordinator |-> "media_player"] \in entities
    /\ Truthy(data["media_player"])
    /\ Truthy(Get(data["media_player"], "system_info", None))
    /\ LET night == HasNightMode(data["media_player"])
       IN  /\ night.exc = "none"
           /\ night_mode_available' = (night_mode_available \/ night.val)
    /\ UNCHANGED <<clientVars, setupVars, coordVars, deviceVars, cmdVars, entryVars,
                   source_mapping>>

-----------------------------------------------------------------------------
(* The commands: DevialetAPI's command methods and the entities' handlers. *)

\* The commands the device may receive in the model.
MaxPosts == 1

\* The methods class DevialetAPI defines.
ApiMethods ==
    {"get_device_info", "get_system_info", "get_firmware_version", "get_volume",
     "set_volume", "volume_up", "volume_down", "play", "pause", "mute", "unmute",
     "next_track", "previous_track", "get_sources", "get_current_source",
     "play_source", "get_night_mode", "set_night_mode", "get_equalizer",
     "set_eq_preset", "set_custom_eq"}

\* max that forgets its first argument.
Max_Second(a, b) == b

Max(a, b) == IF a >= b THEN a ELSE b

Min(a, b) == IF a <= b THEN a ELSE b

Post(endpoint, body) == [sends |-> TRUE, endpoint |-> endpoint, body |-> body]

\* set_eq_preset and the other methods without the test of the preset.
ApiRequest_Unchecked(method, arg) ==
    CASE method = "set_eq_preset" -> Post("API_EQUALIZER", [preset |-> arg])
      [] method = "mute" -> Post("API_MUTE", <<>>)
      [] method = "unmute" -> Post("API_UNMUTE", <<>>)
      [] method = "set_night_mode" ->
            Post("API_NIGHT_MODE", [nightMode |-> IF arg THEN "on" ELSE "off"])
      [] method = "set_volume" -> Post("API_VOLUME", [volume |-> arg])

\* The request a command method of DevialetAPI makes of the device:
\* post(endpoint) sends {}.
ApiRequest(method, arg) ==
    CASE method = "set_volume" -> Post("API_VOLUME", [volume |-> Max(0, Min(100, arg))])
      [] method = "volume_up" -> Post("API_VOLUME_UP", <<>>)
      [] method = "volume_down" -> Post("API_VOLUME_DOWN", <<>>)
      [] method = "play" -> Post("API_PLAY", <<>>)
      [] method = "pause" -> Post("API_PAUSE", <<>>)
      [] method = "mute" -> Post("API_MUTE", <<>>)
      [] method = "unmute" -> Post("API_UNMUTE", <<>>)
      [] method = "next_track" -> Post("API_NEXT", <<>>)
      [] method = "previous_track" -> Post("API_PREVIOUS", <<>>)
      [] method = "play_source" -> Post(<<"API_PLAY_SOURCE", arg>>, <<>>)
      [] method = "set_night_mode" ->
            Post("API_NIGHT_MODE", [nightMode |-> IF arg THEN "on" ELSE "off"])
      [] method = "set_eq_preset" ->
            IF arg \notin {"flat", "voice", "custom"}
            THEN [sends |-> FALSE, endpoint |-> "none", body |-> <<>>]
            ELSE Post("API_EQUALIZER", [preset |-> arg])

\* SOUND_MODES and SOUND_MODE_MAPPING
SOUND_MODES == <<"flat", "voice", "custom">>

SOUND_MODE_MAPPING ==
    <<[mode |-> "flat", formatted |-> "Flat"],
      [mode |-> "voice", formatted |-> "Voice"],
      [mode |-> "custom", formatted |-> "Custom"],
      [mode |-> "night_mode", formatted |-> "Night Mode"]>>

\* DevialetMediaPlayer._format_sound_mode
format_sound_mode(mode) ==
    IF \E i \in 1..Len(SOUND_MODE_MAPPING) : SOUND_MODE_MAPPING[i].mode = mode
    THEN SOUND_MODE_MAPPING[CHOOSE i \in 1..Len(SOUND_MODE_MAPPING) :
                                SOUND_MODE_MAPPING[i].mode = mode].formatted
    ELSE mode

\* int(volume * 100) in double arithmetic, the volume given in hundredths:
\* 0.29, 0.57 and 0.58 times 100 fall just below the integer.
volume_percent(hundredths) ==
    IF hundredths \in {29, 57, 58} THEN hundredths - 1 ELSE hundredths

\* What stands for the argument of a method that takes none.
NoArgument == "no argument"

Call(method, arg) == [method |-> method, arg |-> arg]

\* What a handler does: the API methods it runs in the executor, in order,
\* and whether it ends by awaiting coordinator.async_request_refresh().
Does(calls, refresh) == [exc |-> "none", calls |-> calls, refresh |-> refresh]

\* self.api.<method> for a method DevialetAPI does not define: the handler
\* leaves with AttributeError before anything is run.
NoSuchMethod == [exc |-> "AttributeError", calls |-> <<>>, refresh |-> FALSE]

\* async_select_sound_mode that selects the preset before it turns night
\* mode off.
select_sound_mode_PresetFirst(sound_mode) ==
    IF night_mode_available /\ sound_mode = "Night Mode"
    THEN Does(<<Call("set_night_mode", TRUE)>>, FALSE)
    ELSE IF \E i \in 1..Len(SOUND_MODES) : format_sound_mode(SOUND_MODES[i]) = sound_mode
    THEN LET internal_mode ==
                 SOUND_MODES[CHOOSE i \in 1..Len(SOUND_MODES) :
                                format_sound_mode(SOUND_MODES[i]) = sound_mode]
         IN  Does(<<Call("set_eq_preset", internal_mode)>>
                      \o (IF night_mode_available
                          THEN <<Call("set_night_mode", FALSE)>> ELSE <<>>), TRUE)
    ELSE Does(<<>>, TRUE)

\* async_select_sound_mode that turns night mode on whether or not it is
\* available.
select_sound_mode_NightUnchecked(sound_mode) ==
    IF sound_mode = "Night Mode"
    THEN Does(<<Call("set_night_mode", TRUE)>>, FALSE)
    ELSE IF \E i \in 1..Len(SOUND_MODES) : format_sound_mode(SOUND_MODES[i]) = sound_mode
    THEN LET internal_mode ==
                 SOUND_MODES[CHOOSE i \in 1..Len(SOUND_MODES) :
                                format_sound_mode(SOUND_MODES[i]) = sound_mode]
         IN  Does((IF night_mode_available
                   THEN <<Call("set_night_mode", FALSE)>> ELSE <<>>)
                      \o <<Call("set_eq_preset", internal_mode)>>, TRUE)
    ELSE Does(<<>>, TRUE)

\* DevialetMediaPlayer.async_select_sound_mode
select_sound_mode(sound_mode) ==
    IF ~Truthy(data["media_player"])
    THEN Does(<<>>, FALSE)
    ELSE IF night_mode_available /\ sound_mode = "Night Mode"
    THEN Does(<<Call("set_night_mode", TRUE)>>, FALSE)
    ELSE IF \E i \in 1..Len(SOUND_MODES) : format_sound_mode(SOUND_MODES[i]) = sound_mode
    THEN LET first == CHOOSE i \in 1..Len(SOUND_MODE_MAPPING) :
                         /\ SOUND_MODE_MAPPING[i].formatted = sound_mode
                         /\ \A j \in 1..(i - 1) :
                               SOUND_MODE_MAPPING[j].formatted # sound_mode
             internal_mode == SOUND_MODE_MAPPING[first].mode
         IN  Does((IF night_mode_available
                   THEN <<Call("set_night_mode", FALSE)>> ELSE <<>>)
                      \o <<Call("set_eq_preset", internal_mode)>>, TRUE)
    ELSE Does(<<>>, TRUE)

\* The handlers of the media player (media_player.py) and of the night mode
\* switch (switch.py).
Handler(path, arg) ==
    CASE path = "async_select_source" ->
            IF arg \notin DOMAIN source_mapping
            THEN Does(<<>>, FALSE)
            ELSE Does(<<Call("play_source", source_mapping[arg])>>, TRUE)
      [] path = "async_volume_up" -> Does(<<Call("volume_up", NoArgument)>>, TRUE)
      [] path = "async_volume_down" -> Does(<<Call("volume_down", NoArgument)>>, TRUE)
      [] path = "async_set_volume_level" ->
            Does(<<Call("set_volume", volume_percent(arg))>>, TRUE)
      [] path = "async_mute_volume" ->
            Does(<<Call(IF arg THEN "mute" ELSE "unmute", NoArgument)>>, TRUE)
      [] path = "async_media_play" -> Does(<<Call("play", NoArgument)>>, TRUE)
      [] path = "async_media_pause" -> Does(<<Call("pause", NoArgument)>>, TRUE)
      [] path = "async_media_previous_track" -> Does(<<Call("previous_track", NoArgument)>>, TRUE)
      [] path = "async_media_next_track" -> Does(<<Call("next_track", NoArgument)>>, TRUE)
      [] path = "async_media_stop" -> Does(<<Call("pause", NoArgument)>>, TRUE)
      [] path = "async_select_sound_mode" -> select_sound_mode(arg)
      [] path = "async_turn_on" ->
            IF "reboot_system" \in ApiMethods
            THEN Does(<<Call("reboot_system", NoArgument)>>, TRUE)
            ELSE NoSuchMethod
      [] path = "switch.async_turn_on" -> Does(<<Call("set_night_mode", TRUE)>>, TRUE)
      [] path = "switch.async_turn_off" -> Does(<<Call("set_night_mode", FALSE)>>, TRUE)

\* The arguments the handlers are called with in the model.
Arguments(path) ==
    CASE path = "async_select_source" -> {Chars("Spotify Connect"), Chars("Bluetooth")}
      [] path = "async_set_volume_level" -> {57, 100}
      [] path = "async_mute_volume" -> {TRUE, FALSE}
      [] path = "async_select_sound_mode" -> {"Night Mode", "Flat", "Rock"}
      [] OTHER -> {NoArgument}

PlayerPaths ==
    {"async_select_source", "async_volume_up", "async_volume_down",
     "async_set_volume_level", "async_mute_volume", "async_media_play",
     "async_media_pause", "async_media_previous_track", "async_media_next_track",
     "async_media_stop", "async_select_sound_mode", "async_turn_on"}

SwitchPaths == {"switch.async_turn_on", "switch.async_turn_off"}

\* The entity a handler belongs to.
EntityOf(path) ==
    IF path \in SwitchPaths
    THEN [kind |-> "switch", coordinator |-> "media_player"]
    ELSE [kind |-> "media_player", coordinator |-> "media_player"]

\* night: history, whether _night_mode_available was set when the handler
\* was called.
\* ret: what a method of DevialetAPI called directly returned.  run, log:
\* history, how many times in a row that method was called with the same
\* argument, and the requests of those calls.
NoCommand ==
    [pc |-> "idle", path |-> "none", arg |-> NoArgument, calls |-> <<>>, refresh |-> FALSE,
     sent |-> <<>>, exc |-> "none", requested |-> FALSE, night |-> FALSE,
     ret |-> None, run |-> 0, log |-> <<>>]

\* The handler returns, or an exception leaves it.
Finished(c, exc, requested) ==
    [c EXCEPT !.pc = "done", !.calls = <<>>, !.exc = exc, !.requested = requested]

\* A handler is called and runs to its first await.  With nothing to run it
\* is done at once, after calling async_request_refresh if it does.
Invoke(path, arg) ==
    /\ cmd.pc \in {"idle", "done"}
    /\ EntityOf(path) \in entities
    /\ device_version < MaxPosts
    /\ LET does == Handler(path, arg)
           new == [NoCommand EXCEPT !.path = path, !.arg = arg,
                                    !.calls = does.calls, !.refresh = does.refresh,
                                    !.night = night_mode_available]
           ends == does.exc # "none" \/ does.calls = <<>>
           requests == does.exc = "none" /\ does.refresh
       IN  /\ cmd' = IF ends THEN Finished(new, does.exc, requests)
                     ELSE [new EXCEPT !.pc = "running"]
           /\ refresh_requested' =
                  IF ends /\ requests
                  THEN [refresh_requested EXCEPT ![EntityOf(path).coordinator] = TRUE]
                  ELSE refresh_requested
    /\ UNCHANGED <<clientVars, setupVars, coordVars, deviceVars, playerVars, entryVars>>

\* The next API method of the handler runs in the executor and the handler
\* resumes with its outcome: an exception leaves the handler; after the last
\* method the handler calls async_request_refresh if it does, and returns.
CommandCall(x) ==
    /\ cmd.pc = "running"
    /\ LET this == Head(cmd.calls)
           req == ApiRequest(this.method, this.arg)
           outcome == IF req.sends THEN post(x.transport, x.response) ELSE Return(None)
           reaches == req.sends /\ x.transport = "ok"
           rest == Tail(cmd.calls)
           after == [cmd EXCEPT !.calls = rest,
                                !.sent = IF req.sends
                                         THEN Append(@, [endpoint |-> req.endpoint,
                                                         body |-> req.body])
                                         ELSE @]
           ends == outcome.exc # "none" \/ rest = <<>>
           requests == outcome.exc = "none" /\ cmd.refresh
       IN  /\ call' = IF req.sends
                      THEN [method |-> "POST", endpoint |-> req.endpoint,
                            transport |-> x.transport, response |-> x.response,
                            outcome |-> outcome]
                      ELSE call
           /\ device_version' = IF reaches THEN device_version + 1 ELSE device_version
           /\ cmd' = IF ends THEN Finished(after, outcome.exc, requests) ELSE after
           /\ refresh_requested' =
                  IF ends /\ requests
                  THEN [refresh_requested EXCEPT ![EntityOf(cmd.path).coordinator] = TRUE]
                  ELSE refresh_requested
    /\ UNCHANGED <<setupVars, coordVars, playerVars, entryVars>>

\* A requested refresh begins once no refresh is in progress.
RequestedRefresh(c) ==
    /\ exists[c]
    /\ refresh_requested[c]
    /\ ~Fetching(c)
    /\ cycles[c] < MaxCycles
    /\ refresh_requested' = [refresh_requested EXCEPT ![c] = FALSE]
    /\ fetch' = [fetch EXCEPT ![c] = Started(FALSE)]
    /\ cycles' = [cycles EXCEPT ![c] = @ + 1]
    /\ UNCHANGED <<clientVars, setupVars, deviceVars, playerVars, entryVars, cmd, exists, data,
                   data_stamp, last_update_success>>

-----------------------------------------------------------------------------
(* DevialetAPI.set_volume called directly, and the volume the media player *)
(* reports.                                                                *)

\* How far below 0 and above 100 the volumes of the model reach.
VolumeMargin == 2

\* The integers set_volume is called with.
VolumeInputs == (0 - VolumeMargin)..(100 + VolumeMargin)

\* The volumes async_set_volume_level is called with, in hundredths.
VolumeLevels == {0 - 20, 0, 57, 100, 150}

\* DevialetAPI.set_volume is called with an integer, as the set_volume
\* service handler calls it: the method runs to its return.
SetVolume(volume, x) ==
    /\ cmd.pc \in {"idle", "done"}
    /\ device_version < MaxPosts
    /\ LET req == ApiRequest("set_volume", volume)
           outcome == post(x.transport, x.response)
       IN  /\ call' = [method |-> "POST", endpoint |-> req.endpoint,
                       transport |-> x.transport, response |-> x.response,
                       outcome |-> outcome]
           /\ cmd' = [NoCommand EXCEPT !.pc = "done", !.path = "set_volume",
                                       !.arg = volume,
                                       !.sent = <<[endpoint |-> req.endpoint,
                                                   body |-> req.body]>>,
                                       !.exc = outcome.exc]
           /\ device_version' = IF x.transport = "ok"
                                THEN device_version + 1 ELSE device_version
    /\ UNCHANGED <<setupVars, coordVars, playerVars, entryVars, refresh_requested>>

\* volume / 100.0, kept as the quotient it is.
Quotient(num, den) == [t |-> "float", v |-> [num |-> num, den |-> den]]

\* The media player entity exists.
HasPlayer == [kind |-> "media_player", coordinator |-> "media_player"] \in entities

\* volume_level that tests the volume for truth, not for None.
volume_level_TruthTest ==
    LET snapshot == data["media_player"]
        volume_data == IF Truthy(snapshot) THEN Get(snapshot, "volume", None) ELSE None
        volume == IF Truthy(volume_data) THEN Get(volume_data, "volume", None) ELSE None
    IN  IF Truthy(volume) THEN Return(Quotient(volume.v, 100)) ELSE Return(None)

\* DevialetMediaPlayer.volume_level
volume_level ==
    LET snapshot == data["media_player"]
    IN  IF ~Truthy(snapshot) \/ ~Truthy(Get(snapshot, "volume", None))
        THEN Return(None)
        ELSE LET volume_data == snapshot.v["volume"]
             IN  IF volume_data.t # "dict"
                 THEN Raise("AttributeError")
                 ELSE LET volume == Get(volume_data, "volume", None)
                      IN  IF volume.t = "None" THEN Return(None)
                          ELSE IF volume.t = "int"
                          THEN Return(Quotient(volume.v, 100))
                          ELSE Raise("TypeError")

\* The volumes the device reports: the ends of 0..100, a volume inside, and
\* the volumes outside of VolumeInputs.
ReportedVolumes == {0, 1, 57, 99, 100} \cup (VolumeInputs \ (0..100))

\* The answers of the volume endpoint: every reported volume, an object
\* without a volume, a volume of null, an empty object and no answer.
VolumeBodies ==
    {Dict([volume |-> Number(v)]) : v \in ReportedVolumes}
        \cup {Dict([muted |-> Number(0)]), Dict([volume |-> None]), EmptyDict}

VolumePollExchanges(key) ==
    IF key = "volume"
    THEN {Good(body) : body \in VolumeBodies} \cup {TimedOut}
    ELSE {Good(OkBody(key))}

-----------------------------------------------------------------------------
(* DevialetMediaPlayer: the sound mode and the source list it reports.     *)

\* [self._format_sound_mode(mode) for mode in SOUND_MODES]
FormattedSoundModes ==
    [i \in 1..Len(SOUND_MODES) |-> Str(Chars(format_sound_mode(SOUND_MODES[i])))]

\* DevialetMediaPlayer.sound_mode_list
sound_mode_list ==
    IF ~Truthy(data["media_player"])
    THEN None
    ELSE List(FormattedSoundModes \o
                (IF night_mode_available THEN <<Str(Chars("Night Mode"))>> ELSE <<>>))

\* SOUND_MODE_MAPPING.get(mode, mode) for a mode the device reports
format_reported_mode(mode) ==
    IF \E i \in 1..Len(SOUND_MODE_MAPPING) :
          PyEq(mode, Str(Chars(SOUND_MODE_MAPPING[i].mode)))
    THEN Str(Chars(SOUND_MODE_MAPPING[
             CHOOSE i \in 1..Len(SOUND_MODE_MAPPING) :
                 PyEq(mode, Str(Chars(SOUND_MODE_MAPPING[i].mode)))].formatted))
    ELSE mode

\* DevialetMediaPlayer.sound_mode
sound_mode ==
    LET snapshot == data["media_player"]
        night_mode == Get(snapshot, "night_mode", None)
        equalizer == Get(snapshot, "equalizer", None)
    IN  IF ~Truthy(snapshot) THEN Return(None)
        ELSE IF night_mode_available /\ Truthy(night_mode) /\ night_mode.t # "dict"
        THEN Raise("AttributeError")
        ELSE IF /\ night_mode_available
                /\ Truthy(night_mode)
                /\ PyEq(Get(night_mode, "nightMode", None), Str(Chars("on")))
        THEN Return(Str(Chars("Night Mode")))
        ELSE IF ~Truthy(equalizer) THEN Return(None)
        ELSE IF equalizer.t # "dict" THEN Raise("AttributeError")
        ELSE Return(format_reported_mode(Get(equalizer, "preset", Str(Chars("flat")))))

\* The raw source list is one source_list can walk: a list of objects whose
\* type is a string or is missing.
WellFormedSources(raw) ==
    /\ raw.t = "list"
    /\ \A i \in 1..Len(raw.v) :
          /\ raw.v[i].t = "dict"
          /\ Get(raw.v[i], "type", None).t \in {"None", "str"}

\* The loop of source_list over the raw sources from the i-th on, for the
\* keys of source_types: the formatted names in the order they are first
\* entered.
RECURSIVE SourceTypes(_, _, _)
SourceTypes(names, raw, i) ==
    IF i > Len(raw)
    THEN names
    ELSE LET source_type == Get(raw[i], "type", None)
             keep == /\ Truthy(source_type)
                     /\ Lower(source_type.v) \notin {Chars("bluetooth"), Chars("raat")}
             name == Str(format_source_name(source_type.v))
             seen == \E j \in 1..Len(names) : names[j] = name
         IN  SourceTypes(IF keep /\ ~seen THEN Append(names, name) ELSE names, raw, i + 1)

\* DevialetMediaPlayer.source_list, its return value
source_list ==
    LET snapshot == data["media_player"]
    IN  IF ~Truthy(snapshot) \/ ~Truthy(Get(snapshot, "sources", None))
        THEN Return(None)
        ELSE LET sources == snapshot.v["sources"]
             IN  IF sources.t # "dict" THEN Raise("AttributeError")
                 ELSE LET raw == Get(sources, "sources", List(<<>>))
                      IN  IF ~Truthy(raw) THEN Return(None)
                          ELSE IF ~WellFormedSources(raw) THEN Raise("AttributeError")
                          ELSE Return(List(SourceTypes(<<>>, raw.v, 1)))

AirPlayBody ==
    Dict([sources |->
            List(<<Dict([sourceId |-> Str(Chars("id2")), type |-> Str(Chars("airplay2"))])>>)])

\* The exchanges of a poll while the properties are read: the device with
\* and without night mode, night mode on and off, two presets and two source
\* lists.
ViewPollExchanges(key) ==
    CASE key = "system_info" -> {Good(SystemInfoNight), Good(SystemInfoPlain)}
      [] key = "night_mode" -> {Good(Dict([nightMode |-> Str(Chars("on"))])),
                                Good(Dict([nightMode |-> Str(Chars("off"))]))}
      [] key = "equalizer" -> {Good(Dict([preset |-> Str(Chars("voice"))])),
                               Good(Dict([preset |-> Str(Chars("flat"))]))}
      [] key = "sources" -> {Good(SourcesBody), Good(AirPlayBody)}
      [] OTHER -> {Good(OkBody(key))}

\* The longest raw source list of the model.
MaxSources == 2

\* The types of the raw sources: two spellings of one type, the two
\* blocklisted types in mixed case, three more types with a display name, one
\* of them in capitals, a type without one, and no type.
RawTypes ==
    {Str(Chars("spotifyconnect")), Str(Chars("SpotifyConnect")), Str(Chars("Bluetooth")),
     Str(Chars("RAAT")), Str(Chars("airplay2")), Str(Chars("UPNP")), Str(Chars("optical")),
     Str(Chars("Phono")), None}

Digits == <<"1", "2", "3", "4", "5", "6", "7", "8", "9">>

\* The i-th source of a raw list: its sourceId tells its place.
RawSource(i, type) ==
    IF type = None
    THEN Dict([sourceId |-> Str(<<"i", "d", Digits[i]>>)])
    ELSE Dict([sourceId |-> Str(<<"i", "d", Digits[i]>>), type |-> type])

\* The answers of the sources endpoint: every list of up to MaxSources
\* sources with types of RawTypes.
RawSourceBodies ==
    {Dict([sources |-> List([i \in 1..Len(types) |-> RawSource(i, types[i])])]) :
        types \in UNION {[1..n -> RawTypes] : n \in 0..MaxSources}}

SourcesPollExchanges(key) ==
    IF key = "sources"
    THEN {Good(body) : body \in RawSourceBodies}
    ELSE {Good(OkBody(key))}

-----------------------------------------------------------------------------
(* The command methods of DevialetAPI called directly.                     *)

\* The longest run of calls of one method in the model.
MaxRepeats == 3

\* The methods called and their arguments: set_eq_preset with the three
\* presets, a name of no preset and a preset's display label; mute, unmute
\* and set_night_mode.
ApiCalls ==
    {Call("set_eq_preset", preset) : preset \in {"flat", "voice", "custom", "rock", "Flat"}}
        \cup {Call("mute", NoArgument), Call("unmute", NoArgument), Call("set_night_mode", TRUE)}

\* post that tries again when it has nothing to return.
Attempts_Retry(outcome) == IF outcome.ret = None THEN 2 ELSE 1

\* The requests post makes of the device: one call of requests.post,
\* whatever comes of it.
Attempts(outcome) == 1

\* A command method of DevialetAPI is called, as an executor job runs it: the
\* method runs to its return.
ApiCall(method, arg, x) ==
    /\ cmd.pc \in {"idle", "done"}
    /\ device_version < MaxRepeats
    /\ LET again == cmd.path = method /\ cmd.arg = arg
           run == IF again THEN cmd.run ELSE 0
           req == ApiRequest(method, arg)
           outcome == IF req.sends THEN post(x.transport, x.response) ELSE Return(None)
           requests == IF req.sends
                       THEN [i \in 1..Attempts(outcome) |->
                                [endpoint |-> req.endpoint, body |-> req.body]]
                       ELSE <<>>
       IN  /\ run < MaxRepeats
           /\ call' = IF req.sends
                      THEN [method |-> "POST", endpoint |-> req.endpoint,
                            transport |-> x.transport, response |-> x.response,
                            outcome |-> outcome]
                      ELSE call
           /\ cmd' = [NoCommand EXCEPT !.pc = "done", !.path = method, !.arg = arg,
                                       !.sent = requests, !.exc = outcome.exc,
                                       !.ret = outcome.ret, !.run = run + 1,
                                       !.log = (IF again THEN cmd.log ELSE <<>>)
                                                  \o requests]
           /\ device_version' = IF req.sends /\ x.transport = "ok"
                                THEN device_version + 1 ELSE device_version
    /\ UNCHANGED <<setupVars, coordVars, playerVars, entryVars, refresh_requested>>

-----------------------------------------------------------------------------
(* The playback state, the metadata and the reboot capability reported by  *)
(* the media player and the sensors.                                       *)

\* A member of MediaPlayerState
MediaPlayerState(name) == [t |-> "MediaPlayerState", v |-> name]

Bool(b) == [t |-> "bool", v |-> b]

\* state that knows no state without a playback field.
state_UnknownWithoutPlayback ==
    LET playback == IF Truthy(data["media_player"])
                    THEN Get(data["media_player"], "playback", None) ELSE None
        playing_state == IF Truthy(playback) THEN Get(playback, "playingState", None) ELSE None
    IN  IF ~Truthy(playback) THEN Return(None)
        ELSE IF PyEq(playing_state, Str(Chars("playing")))
        THEN Return(MediaPlayerState("playing"))
        ELSE IF PyEq(playing_state, Str(Chars("paused")))
        THEN Return(MediaPlayerState("paused"))
        ELSE Return(MediaPlayerState("idle"))

\* DevialetMediaPlayer.state
state ==
    LET snapshot == data["media_player"]
    IN  IF ~Truthy(snapshot) \/ ~Truthy(Get(snapshot, "playback", None))
        THEN Return(MediaPlayerState("idle"))
        ELSE LET playback == snapshot.v["playback"]
             IN  IF playback.t # "dict" THEN Raise("AttributeError")
                 ELSE LET playing_state == Get(playback, "playingState", None)
                      IN  IF PyEq(playing_state, Str(Chars("playing")))
                          THEN Return(MediaPlayerState("playing"))
                          ELSE IF PyEq(playing_state, Str(Chars("paused")))
                          THEN Return(MediaPlayerState("paused"))
                          ELSE Return(MediaPlayerState("idle"))

\* DevialetMediaPlayer.media_title, media_artist and media_album_name, for
\* the key "title", "artist" and "album" of the metadata.
media_metadata(key) ==
    LET snapshot == data["media_player"]
    IN  IF ~Truthy(snapshot) \/ ~Truthy(Get(snapshot, "playback", None))
        THEN Return(None)
        ELSE LET playback == snapshot.v["playback"]
             IN  IF playback.t # "dict" THEN Raise("AttributeError")
                 ELSE LET metadata == Get(playback, "metadata", EmptyDict)
                      IN  IF metadata.t # "dict" THEN Raise("AttributeError")
                          ELSE Return(Get(metadata, key, None))

\* DevialetSensorBase._get_metadata_value of a sensor on coordinator c
get_metadata_value(c, key) ==
    LET playback == IF Truthy(data[c]) THEN Get(data[c], "playback", None) ELSE data[c]
    IN  IF ~Truthy(playback) THEN Return(None)
        ELSE IF playback.t # "dict" THEN Raise("AttributeError")
        ELSE LET metadata == Get(playback, "metadata", EmptyDict)
             IN  IF metadata.t # "dict" THEN Raise("AttributeError")
                 ELSE Return(Get(metadata, key, Str(Chars("Unknown"))))

\* The characters of version strings in the order of their code points.
VersionChars == <<".", "0", "1", "2", "3", "4", "5", "6", "7", "8", "9">>

CodePoint(char) == CHOOSE i \in 1..Len(VersionChars) : VersionChars[i] = char

\* a < b for two str
RECURSIVE StrLess(_, _)
StrLess(a, b) ==
    IF a = <<>> THEN b # <<>>
    ELSE IF b = <<>> THEN FALSE
    ELSE IF CodePoint(Head(a)) < CodePoint(Head(b)) THEN TRUE
    ELSE IF CodePoint(Head(a)) > CodePoint(Head(b)) THEN FALSE
    ELSE StrLess(Tail(a), Tail(b))

\* attrs["reboot_supported"] of extra_state_attributes, and the test of
\* supported_features for SUPPORT_REBOOT: None when the attribute is not set.
reboot_supported ==
    LET snapshot == data["media_player"]
    IN  IF ~Truthy(snapshot) \/ ~Truthy(Get(snapshot, "device_info", None))
        THEN Return(None)
        ELSE LET device_info == snapshot.v["device_info"]
             IN  IF device_info.t # "dict" THEN Raise("AttributeError")
                 ELSE LET release == Get(device_info, "release", EmptyDict)
                      IN  IF release.t # "dict" THEN Raise("AttributeError")
                          ELSE LET firmware_version ==
                                       Get(release, "canonicalVersion", Str(Chars("0.0.0")))
                               IN  IF firmware_version.t # "str" THEN Raise("TypeError")
                                   ELSE Return(Bool(~StrLess(firmware_version.v,
                                                             Chars("2.16.0"))))

\* The answers of the playback endpoint.
PlaybackBodies ==
    {Dict([playingState |-> Str(Chars("playing"))]),
     Dict([playingState |-> Str(Chars("paused"))]),
     Dict([playingState |-> Str(Chars("stopped"))]),
     Dict([metadata |-> Dict([title |-> Str(Chars("Song"))])]),
     Dict([playingState |-> Str(Chars("playing")),
           metadata |-> Dict([title |-> Str(Chars("Song")), artist |-> Str(Chars("Band")),
                              album |-> Str(Chars("Disc"))])]),
     Dict([playingState |-> Str(Chars("paused")), metadata |-> EmptyDict]),
     EmptyDict}

\* The firmware versions the device reports.
Versions ==
    {Str(Chars(v)) : v \in {"0.0.0", "2.16.0", "2.16", "2.17.1", "2.9.0", "2.2.0", "10.0.0"}}

\* The answers of the device endpoint: a release with each version, no
\* release, a release without a version, and a release or a version of null.
DeviceInfoBodies ==
    {Dict([release |-> Dict([canonicalVersion |-> v])]) : v \in Versions \cup {None}}
        \cup {Dict([model |-> Str(Chars("Phantom"))]), Dict([release |-> EmptyDict]),
              Dict([release |-> None])}

StatePollExchanges(key) ==
    CASE key = "playback" -> {Good(body) : body \in PlaybackBodies} \cup {TimedOut}
      [] key = "device_info" -> {Good(body) : body \in DeviceInfoBodies} \cup {TimedOut}
      [] OTHER -> {Good(OkBody(key))}

\* The exchanges of a poll whose cycles end either way: the first getter
\* raises on a body of null or of a number, night mode goes without an
\* answer, the last getter raises on a body of null.
LivePollExchanges(key) ==
    CASE key = "device_info" -> {Good(OkBody(key)), Good(None), Good(Number(5))}
      [] key = "night_mode" -> {Good(OkBody(key)), TimedOut}
      [] key = "equalizer" -> {Good(OkBody(key)), Good(None)}
      [] OTHER -> {Good(OkBody(key))}

-----------------------------------------------------------------------------
(* The config entries: __init__.py.  The host sets an entry up and unloads *)
(* it, and calls an entry's update listeners when its options change.      *)

Entries == {"e1", "e2"}

MaxChanges == 2

DEFAULT_SCAN_INTERVAL == 10

\* The values the options flow stores under CONF_SCAN_INTERVAL.
Intervals == {5, 30}

\* entry.options: empty, or with a scan interval.
OptionValues == {EmptyDict} \cup {Dict([scan_interval |-> Number(n)]) : n \in Intervals}

\* The state async_setup_entry and async_unload_entry act on.
HostState ==
    [data |-> domain_data, listeners |-> update_listeners, callbacks |-> on_unload]

\* dict.pop(key)
Pop(d, key) == [k \in DOMAIN d \ {key} |-> d[k]]

\* d[key] = value
Store(d, key, value) == [k \in DOMAIN d \cup {key} |-> IF k = key THEN value ELSE d[k]]

\* async_setup_entry: it stores a new DevialetAPI and the scan interval of the
\* options under the entry's id, forwards the entry to the platforms (their
\* setups are MediaPlayerSetup, SensorSetup and SwitchSetup), registers
\* async_reload_entry as an update listener and hands the listener's remover
\* to entry.async_on_unload.
setup_entry(h, e, opts) ==
    [h EXCEPT !.data = Store(@, e, [api |-> e,
                                    scan_interval |->
                                        Get(opts, "scan_interval",
                                            Number(DEFAULT_SCAN_INTERVAL)).v]),
              !.listeners[e] = @ + 1,
              !.callbacks[e] = @ + 1]

\* async_unload_entry: it unloads the platforms and, when that went well, pops
\* the entry's stored data.  It runs no callback of entry.async_on_unload.
unload_entry(h, e, unload_ok) ==
    IF unload_ok /\ e \in DOMAIN h.data THEN [h EXCEPT !.data = Pop(@, e)] ELSE h

\* async_reload_entry
reload_entry(h, e, opts, unload_ok) ==
    setup_entry(unload_entry(h, e, unload_ok), e, opts)

\* The k update listeners the host found on the entry, run one after another.
RECURSIVE RunListeners(_, _, _, _, _)
RunListeners(h, e, opts, unload_ok, k) ==
    IF k = 0 THEN h
    ELSE RunListeners(reload_entry(h, e, opts, unload_ok), e, opts, unload_ok, k - 1)

NoChange == [count |-> 0, entry |-> "none", unloads |-> 0, setups |-> 0]

NoInvocation == [service |-> "none", exc |-> "none", configured |-> {}, calls |-> {}]

\* The host sets up entry e: it calls async_setup_entry.
EntrySetUp(e) ==
    /\ ~loaded[e]
    /\ LET h == setup_entry(HostState, e, options[e])
       IN  /\ domain_data' = h.data
           /\ update_listeners' = h.listeners
           /\ on_unload' = h.callbacks
    /\ loaded' = [loaded EXCEPT ![e] = TRUE]
    /\ UNCHANGED <<clientVars, setupVars, coordVars, deviceVars, playerVars, cmdVars,
                   options, changed, invoked>>

\* The host unloads entry e: it calls async_unload_entry and, when that
\* returns true, runs the entry's on-unload callbacks, each of which removes
\* the update listener it was made for.
EntryUnloaded(e, unload_ok) ==
    /\ loaded[e]
    /\ LET h == unload_entry(HostState, e, unload_ok)
       IN  /\ domain_data' = h.data
           /\ update_listeners' =
                  IF unload_ok THEN [h.listeners EXCEPT ![e] = @ - h.callbacks[e]]
                  ELSE h.listeners
           /\ on_unload' = IF unload_ok THEN [h.callbacks EXCEPT ![e] = 0] ELSE h.callbacks
    /\ loaded' = [loaded EXCEPT ![e] = ~unload_ok]
    /\ UNCHANGED <<clientVars, setupVars, coordVars, deviceVars, playerVars, cmdVars,
                   options, changed, invoked>>

\* The options of entry e are changed: the host stores them and calls every
\* update listener registered on the entry.
OptionsUpdated(e, opts, unload_ok) ==
    /\ loaded[e]
    /\ opts # options[e]
    /\ changed.count < MaxChanges
    /\ options' = [options EXCEPT ![e] = opts]
    /\ LET k == update_listeners[e]
           h == RunListeners(HostState, e, opts, unload_ok, k)
       IN  /\ domain_data' = h.data
           /\ update_listeners' = h.listeners
           /\ on_unload' = h.callbacks
           /\ changed' = [count |-> changed.count + 1, entry |-> e,
                          unloads |-> k, setups |-> k]
    /\ UNCHANGED <<clientVars, setupVars, coordVars, deviceVars, playerVars, cmdVars,
                   loaded, invoked>>

\* The services of the integration, and the method of DevialetAPI the handler
\* of each calls in register_services.
ServiceMethods ==
    [set_volume |-> "set_volume", volume_up |-> "volume_up", volume_down |-> "volume_down",
     play |-> "play", pause |-> "pause", mute |-> "mute", unmute |-> "unmute",
     next_track |-> "next_track", previous_track |-> "previous_track",
     set_night_mode |-> "set_night_mode", set_eq_preset |-> "set_eq_preset",
     set_custom_eq |-> "set_custom_eq", power_off_system |-> "power_off_system",
     reboot_system |-> "reboot_system"]

Services == DOMAIN ServiceMethods

\* The services registered with the host: register_services is the one place
\* that registers them, and nothing calls it.
RegisteredServices == {}

\* A handler of register_services: the method of the service called on the
\* API client of every entry in hass.data[DOMAIN].
HandlerCalls(service) ==
    {[entry |-> e, api |-> domain_data[e].api, method |-> ServiceMethods[service]] :
        e \in DOMAIN domain_data}

\* A service of the domain is invoked: the host runs the handler registered
\* under the name, and raises ServiceNotFound when there is none.
ServiceCalled(service) ==
    /\ invoked' =
          IF service \in RegisteredServices
          THEN [service |-> service, exc |-> "none", configured |-> DOMAIN domain_data,
                calls |-> HandlerCalls(service)]
          ELSE [service |-> service, exc |-> "ServiceNotFound",
                configured |-> DOMAIN domain_data, calls |-> {}]
    /\ UNCHANGED <<clientVars, setupVars, coordVars, deviceVars, playerVars, cmdVars,
                   domain_data, options, update_listeners, on_unload, loaded, changed>>

-----------------------------------------------------------------------------
(* Initial state and specifications.                                       *)

Init ==
    /\ call = NoCall
    /\ hass_data = "none"
    /\ setup = [p \in Platforms |-> "pending"]
    /\ entities = {}
    /\ exists = [c \in Coordinators |-> FALSE]
    /\ data = [c \in Coordinators |-> None]
    /\ data_stamp = [c \in Coordinators |-> <<>>]
    /\ last_update_success = [c \in Coordinators |-> TRUE]
    /\ fetch = [c \in Coordinators |-> Idle]
    /\ cycles = [c \in Coordinators |-> 0]
    /\ device_version = 0
    /\ night_mode_available = FALSE
    /\ source_mapping = <<>>
    /\ cmd = NoCommand
    /\ refresh_requested = [c \in Coordinators |-> FALSE]
    /\ domain_data = <<>>
    /\ options = [e \in Entries |-> EmptyDict]
    /\ update_listeners = [e \in Entries |-> 0]
    /\ on_unload = [e \in Entries |-> 0]
    /\ loaded = [e \in Entries |-> FALSE]
    /\ changed = NoChange
    /\ invoked = NoInvocation

NextClient ==
    \/ \E e \in GetEndpoints, x \in Exchanges : ClientGet(e, x)
    \/ \E e \in PostEndpoints, x \in Exchanges : ClientPost(e, x)

\* The client alone: any sequence of calls, the device answering anything.
SpecClient == Init /\ [][NextClient]_vars

Poll(c) == Fetching(c) /\ \E x \in PollExchanges(Keys[fetch[c].pc]) : FetchStep(c, x)

NextFetch ==
    \/ MediaPlayerSetup
    \/ TimerRefresh("media_player")
    \/ Poll("media_player")

SetupPoll(c) ==
    Fetching(c) /\ \E x \in SetupExchanges(Keys[fetch[c].pc]) : FetchStep(c, x)

NextSetup ==
    \/ MediaPlayerSetup
    \/ SensorSetup
    \/ SwitchSetup
    \/ \E c \in Coordinators : TimerRefresh(c)
    \/ \E c \in Coordinators : SetupPoll(c)

\* The three platforms of one config entry set up in any interleaving, then
\* the polling of the coordinators they constructed.
SpecSetup == Init /\ [][NextSetup]_vars

CommandPoll(c) ==
    Fetching(c) /\ \E x \in CommandPollExchanges(Keys[fetch[c].pc]) : FetchStep(c, x)

NextCommand ==
    \/ MediaPlayerSetup
    \/ SwitchSetup
    \/ TimerRefresh("media_player")
    \/ RequestedRefresh("media_player")
    \/ CommandPoll("media_player")
    \/ ReadSourceList
    \/ ReadSupportedFeatures
    \/ \E path \in PlayerPaths \cup SwitchPaths : \E arg \in Arguments(path) : Invoke(path, arg)
    \/ \E x \in CommandExchanges : CommandCall(x)

\* The media player and the switch set up, the coordinator polling, and the
\* handlers of both entities called one after another.
SpecCommand == Init /\ [][NextCommand]_vars

VolumePoll(c) ==
    Fetching(c) /\ \E x \in VolumePollExchanges(Keys[fetch[c].pc]) : FetchStep(c, x)

NextVolume ==
    \/ MediaPlayerSetup
    \/ VolumePoll("media_player")
    \/ \E volume \in VolumeInputs : \E x \in {Good(EmptyDict), TimedOut} : SetVolume(volume, x)
    \/ \E level \in VolumeLevels : Invoke("async_set_volume_level", level)
    \/ \E x \in CommandExchanges : CommandCall(x)

\* The media player set up on a device that reports any volume, and the
\* volume set through DevialetAPI.set_volume and async_set_volume_level.
SpecVolume == Init /\ [][NextVolume]_vars

\* The labels async_select_sound_mode is called with: the four of
\* SOUND_MODE_MAPPING, two internal names and a label of no mode.
SoundModeLabels == {"Night Mode", "Flat", "Voice", "Custom", "Rock", "flat", "night_mode"}

NextSoundMode ==
    \/ MediaPlayerSetup
    \/ TimerRefresh("media_player")
    \/ CommandPoll("media_player")
    \/ ReadSupportedFeatures
    \/ \E label \in SoundModeLabels : Invoke("async_select_sound_mode", label)
    \/ \E x \in CommandExchanges : CommandCall(x)

\* The media player set up on a device with or without night mode, and
\* sound modes selected on it.
SpecSoundMode == Init /\ [][NextSoundMode]_vars

ViewPoll(c) ==
    Fetching(c) /\ \E x \in ViewPollExchanges(Keys[fetch[c].pc]) : FetchStep(c, x)

NextView ==
    \/ MediaPlayerSetup
    \/ TimerRefresh("media_player")
    \/ ViewPoll("media_player")
    \/ ReadSupportedFeatures
    \/ ReadSourceList

\* The media player set up and polling a device whose features, modes and
\* sources change, and its properties read.
SpecView == Init /\ [][NextView]_vars

SourcesPoll(c) ==
    Fetching(c) /\ \E x \in SourcesPollExchanges(Keys[fetch[c].pc]) : FetchStep(c, x)

NextSources ==
    \/ MediaPlayerSetup
    \/ SourcesPoll("media_player")
    \/ ReadSourceList

\* The media player set up on a device with any raw source list, and its
\* source_list read.
SpecSources == Init /\ [][NextSources]_vars

NextApi ==
    \/ MediaPlayerSetup
    \/ CommandPoll("media_player")
    \/ \E c \in ApiCalls : \E x \in CommandExchanges : ApiCall(c.method, c.arg, x)

\* The command methods of DevialetAPI called in any order, beside a media
\* player that is set up.
SpecApi == Init /\ [][NextApi]_vars

StatePoll(c) ==
    Fetching(c) /\ \E x \in StatePollExchanges(Keys[fetch[c].pc]) : FetchStep(c, x)

NextState ==
    \/ MediaPlayerSetup
    \/ SensorSetup
    \/ \E c \in Coordinators : StatePoll(c)

\* The media player and the sensors set up on a device with any playback
\* and any firmware version.
SpecState == Init /\ [][NextState]_vars

LivePoll(c) ==
    Fetching(c) /\ \E x \in LivePollExchanges(Keys[fetch[c].pc]) : FetchStep(c, x)

NextLive ==
    \/ MediaPlayerSetup
    \/ TimerRefresh("media_player")
    \/ RequestedRefresh("media_player")
    \/ LivePoll("media_player")
    \/ ReadSupportedFeatures
    \/ Invoke("async_select_sound_mode", "Night Mode")
    \/ Invoke("async_volume_up", NoArgument)
    \/ \E x \in {Good(EmptyDict), TimedOut} : CommandCall(x)
    \/ \E x \in {Good(EmptyDict), TimedOut} : ApiCall("mute", NoArgument, x)

NextEntry ==
    \/ \E e \in Entries : EntrySetUp(e)
    \/ \E e \in Entries : \E unload_ok \in BOOLEAN : EntryUnloaded(e, unload_ok)
    \/ \E e \in Entries : \E opts \in OptionValues : \E unload_ok \in BOOLEAN :
            OptionsUpdated(e, opts, unload_ok)
    \/ \E service \in Services : ServiceCalled(service)

\* The config entries set up, unloaded and their options changed by the host,
\* and the services of the domain invoked.
SpecEntry == Init /\ [][NextEntry]_vars

\* Every endpoint call returns or times out (DevialetAPI.timeout), the update
\* timer fires while the coordinator has listeners, and a requested refresh
\* is run.
\* Each of the three changes fetch, so fairness is stated on fetch alone.
FairLive ==
    /\ WF_fetch(LivePoll("media_player"))
    /\ WF_fetch(TimerRefresh("media_player"))
    /\ WF_fetch(RequestedRefresh("media_player"))

\* The media player polling on its timer and on request, with commands given
\* through the entity and through the client.
SpecLive == Init /\ [][NextLive]_vars /\ FairLive

\* The media player platform alone: its setup, then the polling of its
\* coordinator, every endpoint answering, timing out or answering a number.
SpecFetch == Init /\ [][NextFetch]_vars

-----------------------------------------------------------------------------
(* The claims about the client.                                            *)

Called == call.method # "none"

IsMappingOrNone(val) == val.t \in {"dict", "None"}

\* C1: for every response with status 200 (a JSON object, an object with an
\* error key, an array, a string, a number, null, unparsable text), get and
\* post return a decoded mapping or None and raise no exception.
C1_Status200ReturnsMappingOrNone ==
    (Called /\ call.transport = "ok" /\ call.response.status_code = HTTP_OK)
        => (call.outcome.exc = "none" /\ IsMappingOrNone(call.outcome.ret))

\* The four failure classes of one call.
TransportFailure == call.transport \in RequestException

Non200 == call.transport = "ok" /\ call.response.status_code # HTTP_OK

InvalidJson ==
    /\ call.transport = "ok"
    /\ call.response.status_code = HTTP_OK
    /\ call.response.body.t = "notjson"

VendorError ==
    /\ call.transport = "ok"
    /\ call.response.status_code = HTTP_OK
    /\ call.response.body.t = "dict"
    /\ "error" \in DOMAIN call.response.body.v

\* C2: a transport failure, a non-200 status, a body that is not JSON and a
\* 200 JSON object with an error key all give the same outcome: get/post
\* returns None and no exception escapes.
C2_FailureClassesReturnNone ==
    (Called /\ (TransportFailure \/ Non200 \/ InvalidJson \/ VendorError))
        => (call.outcome.exc = "none" /\ PyEq(call.outcome.ret, None))

\* The four classes have all occurred on POSTs and GETs: here a vendor error
\* answered a POST.
C2_Witness == Called /\ call.method = "POST" /\ VendorError /\ PyEq(call.outcome.ret, None)

-----------------------------------------------------------------------------
(* The claims about a fetch cycle.                                         *)

\* In this step a getter of coordinator c returned without an exception.
GetterReturned(c) ==
    /\ Fetching(c)
    /\ fetch'[c] # fetch[c]
    /\ call'.outcome.exc = "none"

\* In this step an exception left a getter of coordinator c.
GetterRaised(c) ==
    /\ Fetching(c)
    /\ fetch'[c] # fetch[c]
    /\ call'.outcome.exc # "none"

IsLast(c) == fetch[c].pc = Len(Keys)

\* The dict of the cycle in progress, with the value the getter returned.
Extended(c) ==
    [k \in DOMAIN fetch[c].local \cup {Keys[fetch[c].pc]} |->
        IF k = Keys[fetch[c].pc] THEN call'.outcome.ret ELSE fetch[c].local[k]]

\* C3: a fetch cycle is failure-isolated per endpoint.  Whatever a getter
\* returns, absent included, its key is stored with that value; after any
\* getter but the last the next getter is called; after the last the cycle is
\* published (not failed) and the snapshot holds exactly the seven keys, the
\* absent results stored as None.
C3_FetchIsolatedPerEndpoint ==
    [][\A c \in Coordinators :
          GetterReturned(c) =>
              IF IsLast(c)
              THEN /\ ~Fetching(c)'
                   /\ last_update_success'[c]
                   /\ data'[c] = Dict(Extended(c))
                   /\ DOMAIN data'[c].v = KeySet
              ELSE /\ fetch'[c].pc = fetch[c].pc + 1
                   /\ fetch'[c].local = Extended(c)
                   /\ DOMAIN fetch'[c].local = {Keys[i] : i \in 1..fetch[c].pc}]_vars

\* A snapshot was published with six fields present and volume absent.
C3_Witness ==
    /\ last_update_success["media_player"]
    /\ data["media_player"].t = "dict"
    /\ DOMAIN data["media_player"].v = KeySet
    /\ \A k \in KeySet : (data["media_player"].v[k].t = "None") = (k = "volume")

WholeSnapshot(c) ==
    data[c].t = "dict" =>
        /\ DOMAIN data[c].v = KeySet
        /\ DOMAIN data_stamp[c] = KeySet
        /\ \A j, k \in KeySet : data_stamp[c][j].cycle = data_stamp[c][k].cycle

\* C5: the current snapshot is swapped atomically.  While a cycle is in
\* progress coordinator.data is the complete previous snapshot: it does not
\* change between two endpoint calls, and it never holds fields of two
\* cycles.
C5_SnapshotSwappedAtomically ==
    /\ [](\A c \in Coordinators : (data[c].t \in {"None", "dict"}) /\ WholeSnapshot(c))
    /\ [][\A c \in Coordinators :
             (Fetching(c) /\ Fetching(c)') =>
                 (data'[c] = data[c] /\ data_stamp'[c] = data_stamp[c])]_vars

\* A second cycle is half done while the snapshot of the first is current.
C5_Witness ==
    /\ fetch["media_player"].pc = 4
    /\ cycles["media_player"] = 2
    /\ data["media_player"].t = "dict"
    /\ \A k \in KeySet : data_stamp["media_player"][k].cycle = 1

-----------------------------------------------------------------------------
(* The claims about the setup of the platforms.                            *)

\* C8: each entry has a single owner of device state.  Under every
\* interleaving of the three platform setups exactly one coordinator exists
\* for the entry, and the media player, the sensors and the switch read the
\* same coordinator.
C8_SingleCoordinator ==
    /\ Cardinality({c \in Coordinators : exists[c]}) <= 1
    /\ \A e1, e2 \in entities : e1.coordinator = e2.coordinator

\* The first refresh of coordinator c has finished.
FirstRefreshDone(c) ==
    /\ exists[c]
    /\ cycles[c] >= 1
    /\ ~(Fetching(c) /\ fetch[c].first)

\* C9: no view is added before the first fetch of the coordinator it reads
\* has completed, in every interleaving of the platform setups.
C9_ViewsAfterFirstRefresh ==
    \A e \in entities : FirstRefreshDone(e.coordinator)

\* The media player, the sensors and the switch have all been added, the
\* sensors on a coordinator of their own.
C9_Witness ==
    /\ [kind |-> "media_player", coordinator |-> "media_player"] \in entities
    /\ [kind |-> "switch", coordinator |-> "media_player"] \in entities
    /\ [kind |-> "sensor.volume", coordinator |-> "sensor"] \in entities

\* A command method's POST is issued in this step.
PostIssued == Len(cmd'.sent) > Len(cmd.sent)

\* The fetch cycle of coordinator c has made its first GET and not its last.
BetweenGets(c) == Fetching(c) /\ fetch[c].pc > 1

\* C7: a fetch cycle and a command never interleave.  No command's POST is
\* issued between the first and the last endpoint GET of a fetch cycle.
C7_NoPostBetweenGets ==
    [][PostIssued => \A c \in Coordinators : ~BetweenGets(c)]_vars

\* The handler has ended on a path that the refresh is required of: every
\* path but async_select_source called with a label that is not known, which
\* sends nothing.
CommandEnded ==
    /\ cmd.pc = "done"
    /\ ~(cmd.path = "async_select_source" /\ cmd.sent = <<>>)

\* C10: every command path requests a coordinator refresh after its device
\* calls have been issued, whatever the outcome of the device call.
C10_EveryCommandRequestsRefresh ==
    CommandEnded => cmd.requested

-----------------------------------------------------------------------------
(* The claims about the volume.                                            *)

\* v clamped to 0..100
Clamped(v) == IF v < 0 THEN 0 ELSE IF v > 100 THEN 100 ELSE v

VolumeRequest(v) == [endpoint |-> "API_VOLUME", body |-> [volume |-> v]]

\* C11: for every integer v, set_volume issues exactly one POST to the
\* volume endpoint with body {"volume": min(100, max(0, v))}, and no volume
\* outside 0..100 is sent to the device, also from async_set_volume_level.
C11_SetVolumeClamps ==
    /\ (cmd.pc = "done" /\ cmd.path = "set_volume")
          => cmd.sent = <<VolumeRequest(Clamped(cmd.arg))>>
    /\ (cmd.pc = "done" /\ cmd.path = "async_set_volume_level")
          => Len(cmd.sent) = 1
    /\ \A i \in 1..Len(cmd.sent) :
          cmd.sent[i].endpoint = "API_VOLUME" => cmd.sent[i].body.volume \in 0..100

\* set_volume was called with a volume below 0, and async_set_volume_level
\* with a volume above 1.
C11_Witness ==
    \/ cmd.pc = "done" /\ cmd.path = "set_volume" /\ cmd.arg < 0
    \/ cmd.pc = "done" /\ cmd.path = "async_set_volume_level" /\ cmd.arg > 100

\* The volume the current snapshot reports is the integer v.
Reports(v) ==
    /\ HasPlayer
    /\ Truthy(data["media_player"])
    /\ PyEq(Get(data["media_player"], "volume", None), Dict([volume |-> Number(v)]))

\* C12: whenever volume_level is known it lies in [0.0, 1.0]: for every
\* integer the device reports, below 0 and above 100 included, it is the
\* reported value clamped to 0..100, divided by 100.
C12_VolumeLevelInUnitInterval ==
    \A v \in ReportedVolumes :
        Reports(v) => volume_level = Return(Quotient(Clamped(v), 100))

\* C13: volume_level is None exactly when there is no snapshot, the volume
\* field is absent or the field carries no volume value; a volume v gives
\* v/100, and a volume of 0 gives 0.0 and not None.
C13_VolumeLevelUnknownOnlyWithoutValue ==
    HasPlayer =>
        LET snapshot == data["media_player"]
            field == IF Truthy(snapshot) THEN Get(snapshot, "volume", None) ELSE None
            valued == field.t = "dict" /\ "volume" \in DOMAIN field.v
                         /\ field.v["volume"].t = "int"
        IN  /\ volume_level.exc = "none"
            /\ volume_level.ret = None <=> ~valued
            /\ valued =>
                  /\ field.v["volume"].v \in 0..100
                        => volume_level.ret = Quotient(field.v["volume"].v, 100)
                  /\ volume_level.ret.v.den = 100

\* The snapshot reports a volume of 0.
C13_Witness == Reports(0) /\ volume_level.ret = Quotient(0, 100)

-----------------------------------------------------------------------------
(* The claims about the sound mode.                                        *)

\* async_select_sound_mode has returned.
SoundModeSelected ==
    cmd.pc = "done" /\ cmd.path = "async_select_sound_mode" /\ cmd.exc = "none"

NightModeRequest(setting) == [endpoint |-> "API_NIGHT_MODE", body |-> [nightMode |-> setting]]

PresetRequest(preset) == [endpoint |-> "API_EQUALIZER", body |-> [preset |-> preset]]

\* The internal preset of the three equalizer labels.
PresetOf(label) ==
    CASE label = "Flat" -> "flat"
      [] label = "Voice" -> "voice"
      [] label = "Custom" -> "custom"

PresetLabels == {"Flat", "Voice", "Custom"}

\* C14: selecting "Night Mode" with night mode available issues night-mode-on
\* and nothing else; selecting Flat, Voice or Custom issues night-mode-off and
\* then the preset-select of the label's preset with night mode available,
\* and the preset-select alone without it.
C14_SoundModeCommandsInOrder ==
    SoundModeSelected =>
        /\ (cmd.arg = "Night Mode" /\ cmd.night)
              => cmd.sent = <<NightModeRequest("on")>>
        /\ (cmd.arg \in PresetLabels /\ cmd.night)
              => cmd.sent = <<NightModeRequest("off"), PresetRequest(PresetOf(cmd.arg))>>
        /\ (cmd.arg \in PresetLabels /\ ~cmd.night)
              => cmd.sent = <<PresetRequest(PresetOf(cmd.arg))>>

\* Voice was selected with night mode available.
C14_Witness ==
    SoundModeSelected /\ cmd.arg = "Voice" /\ cmd.night /\ Len(cmd.sent) = 2

\* C15: selecting a label that is not recognised, "Night Mode" without night
\* mode available included, sends no command to the device.
C15_UnrecognisedLabelSendsNothing ==
    (/\ cmd.path = "async_select_sound_mode"
     /\ cmd.arg \notin PresetLabels
     /\ ~(cmd.arg = "Night Mode" /\ cmd.night))
        => cmd.sent = <<>> /\ cmd.calls = <<>>

\* "Night Mode" was selected without night mode available.
C15_Witness ==
    SoundModeSelected /\ cmd.arg = "Night Mode" /\ ~cmd.night

-----------------------------------------------------------------------------
(* The claims about the properties of the media player.                    *)

\* The current snapshot's system_info lists nightMode.
SnapshotListsNightMode ==
    /\ Truthy(data["media_player"])
    /\ HasNightMode(data["media_player"]) = [exc |-> "none", val |-> TRUE]

ListsNightMode(modes) ==
    modes.t = "list" /\ \E i \in 1..Len(modes.v) : modes.v[i] = Str(Chars("Night Mode"))

\* C16: the night-mode-available flag follows the current snapshot.
\* sound_mode_list contains "Night Mode" if and only if the snapshot's
\* system_info.availableFeatures contains nightMode, whatever was read before
\* and whatever earlier snapshots contained.
C16_NightModeListFollowsSnapshot ==
    HasPlayer => (ListsNightMode(sound_mode_list) <=> SnapshotListsNightMode)

\* The current snapshot reports night mode on.
NightModeOn ==
    PyEq(Get(data["media_player"], "night_mode", None),
         Dict([nightMode |-> Str(Chars("on"))]))

\* The display label of a preset the device reports.
LabelOf(preset) ==
    CASE preset = Str(Chars("flat")) -> Str(Chars("Flat"))
      [] preset = Str(Chars("voice")) -> Str(Chars("Voice"))
      [] preset = Str(Chars("custom")) -> Str(Chars("Custom"))

\* C17: when the current snapshot lists nightMode and reports night mode on,
\* sound_mode is "Night Mode" whatever the preset; in every other state with
\* an equalizer field, sound_mode is the display label of the preset.
C17_SoundModeFollowsSnapshot ==
    HasPlayer =>
        LET equalizer == Get(data["media_player"], "equalizer", None)
        IN  IF SnapshotListsNightMode /\ NightModeOn
            THEN sound_mode = Return(Str(Chars("Night Mode")))
            ELSE Truthy(equalizer)
                    => sound_mode = Return(LabelOf(equalizer.v["preset"]))

\* The labels of the exposed source list.
ExposedLabels ==
    IF source_list.ret.t = "list"
    THEN {source_list.ret.v[i].v : i \in 1..Len(source_list.ret.v)}
    ELSE {}

\* C18: the source mapping is rebuilt on every read of source_list.  After a
\* read that writes the mapping, its labels are the labels of the
\* non-blocklisted sources of the current snapshot.
C18_SourceMappingRebuilt ==
    [][source_mapping' # source_mapping => DOMAIN source_mapping' = ExposedLabels']_vars

-----------------------------------------------------------------------------
(* The claims about the source list.                                       *)

\* The raw source list of the current snapshot.
RawSources ==
    IF HasPlayer /\ Truthy(data["media_player"])
    THEN Get(Get(data["media_player"], "sources", EmptyDict), "sources", List(<<>>)).v
    ELSE <<>>

\* The type of a raw source is bluetooth or raat, in any case.
Blocklisted(source) ==
    Get(source, "type", None) \in {Str(Chars("Bluetooth")), Str(Chars("RAAT"))}

\* The label of a raw source that has a type and is not blocklisted.
LabelOfSource(source) ==
    LET type == Get(source, "type", None)
    IN  CASE type = Str(Chars("spotifyconnect")) -> Chars("Spotify Connect")
          [] type = Str(Chars("SpotifyConnect")) -> Chars("Spotify Connect")
          [] type = Str(Chars("airplay2")) -> Chars("AirPlay")
          [] type = Str(Chars("UPNP")) -> Chars("UPnP/DLNA")
          [] type = Str(Chars("optical")) -> Chars("Optical")
          [] type = Str(Chars("Phono")) -> Chars("Phono")

\* The raw sources that are exposed: those with a type that is not
\* blocklisted.
Exposable == {i \in 1..Len(RawSources) :
                 "type" \in DOMAIN RawSources[i].v /\ ~Blocklisted(RawSources[i])}

\* C19: the exposed source_list contains no label of a source whose type is
\* bluetooth or raat in any case, and the formatted label of every other
\* source that has a type; [spotifyconnect, bluetooth] gives exactly
\* ["Spotify Connect"].
C19_SourceListExcludesBlocklisted ==
    RawSources # <<>> =>
        /\ source_list.exc = "none"
        /\ source_list.ret.t = "list"
        /\ ExposedLabels = {LabelOfSource(RawSources[i]) : i \in Exposable}
        /\ \A i \in 1..Len(RawSources) :
              Blocklisted(RawSources[i])
                 => Get(RawSources[i], "type", None).v \notin ExposedLabels

\* The raw list is [spotifyconnect, Bluetooth] and the exposed list is
\* ["Spotify Connect"].
C19_Witness ==
    /\ Len(RawSources) = 2
    /\ Get(RawSources[1], "type", None) = Str(Chars("spotifyconnect"))
    /\ Get(RawSources[2], "type", None) = Str(Chars("Bluetooth"))
    /\ source_list = Return(List(<<Str(Chars("Spotify Connect"))>>))

\* C20: when several sources of one raw list format to the same label, the
\* label appears once in the exposed source_list and the mapping gives it the
\* sourceId of the last such source.
C20_DuplicateLabelLastWins ==
    /\ RawSources # <<>> =>
          \A i, j \in 1..Len(source_list.ret.v) :
              source_list.ret.v[i] = source_list.ret.v[j] => i = j
    /\ source_mapping # <<>> =>
          \A label \in DOMAIN source_mapping :
              \E i \in Exposable :
                  /\ LabelOfSource(RawSources[i]) = label
                  /\ source_mapping[label] = RawSources[i].v["sourceId"]
                  /\ \A j \in Exposable : LabelOfSource(RawSources[j]) = label => j <= i

\* C26: source label formatting is a case-insensitive lookup in the table
\* spotifyconnect, airplay2, upnp, optical: a type that matches a key in any
\* letter case gives the table label and every other type is returned as it
\* is.  Seen on the lists of one source.
C26_SourceLabelCaseInsensitive ==
    (Len(RawSources) = 1 /\ Exposable = {1}) =>
        /\ source_list = Return(List(<<Str(LabelOfSource(RawSources[1]))>>))
        /\ source_mapping # <<>> => DOMAIN source_mapping = {LabelOfSource(RawSources[1])}

\* The one source has type UPNP and the source list is ["UPnP/DLNA"].
C26_Witness ==
    /\ Len(RawSources) = 1
    /\ Get(RawSources[1], "type", None) = Str(Chars("UPNP"))
    /\ source_list = Return(List(<<Str(Chars("UPnP/DLNA"))>>))
    /\ source_mapping # <<>>

\* Two sources format to "Spotify Connect" and the mapping holds the second.
C20_Witness ==
    /\ Len(RawSources) = 2
    /\ Exposable = {1, 2}
    /\ LabelOfSource(RawSources[1]) = LabelOfSource(RawSources[2])
    /\ source_list = Return(List(<<Str(Chars("Spotify Connect"))>>))
    /\ Chars("Spotify Connect") \in DOMAIN source_mapping
    /\ source_mapping[Chars("Spotify Connect")] = Str(<<"i", "d", "2">>)

-----------------------------------------------------------------------------
(* The claims about reboot, power-off and the selection of a source.       *)

\* C21: the power-off command and the reboot command each make a device call
\* through the API client and complete without an exception; the reboot path
\* of the media player, async_turn_on, then requests a coordinator refresh.
C21_PowerOffAndRebootCallDevice ==
    /\ HasPlayer => {"reboot_system", "power_off_system"} \subseteq ApiMethods
    /\ (cmd.pc = "done" /\ cmd.path = "async_turn_on")
          => cmd.exc = "none" /\ Len(cmd.sent) = 1 /\ cmd.requested

\* The play-source request for the sourceId the current snapshot gives the
\* label: that of the last exposed source with the label.
PlaySourceRequest(label) ==
    LET last == CHOOSE i \in Exposable :
                    /\ LabelOfSource(RawSources[i]) = label
                    /\ \A j \in Exposable : LabelOfSource(RawSources[j]) = label => j <= i
    IN  [endpoint |-> <<"API_PLAY_SOURCE", RawSources[last].v["sourceId"]>>, body |-> <<>>]

\* C30: when label L is in the source list of the current snapshot,
\* select_source(L) issues one play-source POST for the sourceId the snapshot
\* gives L and requests a refresh, whether or not source_list has been read
\* since the snapshot was published; for any other label it sends nothing and
\* requests no refresh.
C30_SelectSourceFollowsSnapshot ==
    (cmd.pc = "done" /\ cmd.path = "async_select_source" /\ cmd.exc = "none") =>
        IF cmd.arg \in ExposedLabels
        THEN cmd.sent = <<PlaySourceRequest(cmd.arg)>> /\ cmd.requested
        ELSE cmd.sent = <<>> /\ ~cmd.requested

-----------------------------------------------------------------------------
(* The claims about the command methods of the client.                     *)

\* The method of DevialetAPI was called directly and has returned or raised.
ApiCalled(method) == cmd.pc = "done" /\ cmd.path = method

\* C22: set_eq_preset with a name outside {flat, voice, custom} returns None
\* and makes no HTTP request; with a name inside it makes exactly one POST to
\* the equalizer endpoint with body {"preset": name}.
C22_InvalidPresetRejectedLocally ==
    ApiCalled("set_eq_preset") =>
        IF cmd.arg \in {"flat", "voice", "custom"}
        THEN cmd.sent = <<[endpoint |-> "API_EQUALIZER", body |-> [preset |-> cmd.arg]]>>
        ELSE cmd.sent = <<>> /\ cmd.exc = "none" /\ cmd.ret = None

\* set_eq_preset was called with a name of no preset, and with a preset's
\* display label.
C22_Witness ==
    ApiCalled("set_eq_preset") /\ cmd.arg \in {"rock", "Flat"} /\ cmd.run >= 1

\* C23: commands are neither de-duplicated nor retried.  Each call of mute
\* makes one HTTP attempt whatever its outcome, and the same command called n
\* times in a row makes n identical POSTs, whatever the snapshot holds.
C23_NoDeduplicationNoRetry ==
    \A method \in {"mute", "unmute", "set_night_mode"} :
        ApiCalled(method) =>
            /\ Len(cmd.sent) = 1
            /\ Len(cmd.log) = cmd.run
            /\ \A i \in 1..Len(cmd.log) : cmd.log[i] = cmd.sent[1]

\* mute was called MaxRepeats times in a row, the last call without an answer.
C23_Witness ==
    /\ ApiCalled("mute")
    /\ cmd.run = MaxRepeats
    /\ call.endpoint = "API_MUTE"
    /\ call.transport \in RequestException

-----------------------------------------------------------------------------
(* The claims about the playback state, the metadata and the reboot        *)
(* capability.                                                             *)

\* The playback field of coordinator c's snapshot, None without one.
PlaybackField(c) ==
    IF data[c].t = "dict" /\ "playback" \in DOMAIN data[c].v
    THEN data[c].v["playback"] ELSE None

\* The playingState the snapshot reports is the given one.
PlayingStateIs(name) ==
    /\ PlaybackField("media_player").t = "dict"
    /\ "playingState" \in DOMAIN PlaybackField("media_player").v
    /\ PlaybackField("media_player").v["playingState"] = Str(Chars(name))

\* C24: the media player state is a total function of the snapshot: playing
\* when playback.playingState is "playing", paused when it is "paused", idle
\* in every other case.
C24_StateTotal ==
    HasPlayer =>
        state = Return(MediaPlayerState(
                    IF PlayingStateIs("playing") THEN "playing"
                    ELSE IF PlayingStateIs("paused") THEN "paused"
                    ELSE "idle"))

\* The state is idle without a playback field, and with a playback field
\* without playingState.
C24_Witness ==
    /\ HasPlayer
    /\ PlaybackField("media_player") = None
    /\ state = Return(MediaPlayerState("idle"))

\* The metadata key a sensor reports.
MetadataKey(kind) ==
    CASE kind = "sensor.track" -> "title"
      [] kind = "sensor.artist" -> "artist"
      [] kind = "sensor.album" -> "album"

\* The metadata field of coordinator c's snapshot is present.
HasMetadata(c, key) ==
    /\ PlaybackField(c).t = "dict"
    /\ "metadata" \in DOMAIN PlaybackField(c).v
    /\ PlaybackField(c).v["metadata"].t = "dict"
    /\ key \in DOMAIN PlaybackField(c).v["metadata"].v

Metadata(c, key) == PlaybackField(c).v["metadata"].v[key]

\* C25: for title, artist and album and for every snapshot, an absent field
\* makes the metadata sensor report "Unknown" and the media player report
\* None, and a present field makes both report its value.
C25_MetadataDefaults ==
    /\ HasPlayer =>
          \A key \in {"title", "artist", "album"} :
              media_metadata(key) =
                  Return(IF HasMetadata("media_player", key)
                         THEN Metadata("media_player", key) ELSE None)
    /\ \A e \in entities :
          e.kind \in {"sensor.track", "sensor.artist", "sensor.album"} =>
              get_metadata_value(e.coordinator, MetadataKey(e.kind)) =
                  Return(IF HasMetadata(e.coordinator, MetadataKey(e.kind))
                         THEN Metadata(e.coordinator, MetadataKey(e.kind))
                         ELSE Str(Chars("Unknown")))

\* The device_info field of the snapshot, a mapping.
DeviceInfoField == data["media_player"].v["device_info"]

HasDeviceInfo ==
    /\ HasPlayer
    /\ data["media_player"].t = "dict"
    /\ "device_info" \in DOMAIN data["media_player"].v
    /\ DeviceInfoField.t = "dict"
    /\ DeviceInfoField.v # <<>>

\* The versions that compare greater than or equal to "2.16.0" as strings.
AtLeast2160 == {Str(Chars(v)) : v \in {"2.16.0", "2.17.1", "2.9.0", "2.2.0"}}

\* C27: reboot_supported is true exactly when
\* device_info.release.canonicalVersion compares greater than or equal to
\* "2.16.0" as a string, a missing version counts as "0.0.0", and no
\* exception is raised for any device_info that is a mapping.
C27_RebootByStringComparison ==
    HasDeviceInfo =>
        LET release == Get(DeviceInfoField, "release", EmptyDict)
            version == IF release.t = "dict"
                       THEN Get(release, "canonicalVersion", Str(Chars("0.0.0")))
                       ELSE Str(Chars("0.0.0"))
        IN  /\ reboot_supported.exc = "none"
            /\ reboot_supported.ret = Bool(version \in AtLeast2160)

-----------------------------------------------------------------------------
(* The claims about the progress of the coordinator.                       *)

\* The n-th fetch cycle of the media player's coordinator is in progress.
CycleRunning(n) == Fetching("media_player") /\ cycles["media_player"] = n

\* The n-th fetch cycle has ended and none has started since.
CycleEnded(n) == ~Fetching("media_player") /\ cycles["media_player"] = n

\* C28: the coordinator goes from idle to fetching, to published or failed,
\* and back to idle: every fetch cycle that starts, from the timer or from a
\* refresh request, ends and leaves the coordinator idle, given that each
\* endpoint call returns or times out.
C28_EveryCycleEnds ==
    \A n \in 1..MaxCycles : CycleRunning(n) ~> CycleEnded(n)

\* A cycle started on a command's request has ended.
C28_Witness ==
    /\ CycleEnded(MaxCycles)
    /\ cmd.requested
    /\ ~refresh_requested["media_player"]

\* A command's device call has returned while the n-th cycle was the latest.
CallReturned(n) ==
    /\ HasPlayer
    /\ cmd.pc = "done"
    /\ cmd.sent # <<>>
    /\ cycles["media_player"] = n

\* A cycle that started after the n-th has ended, and if it was published
\* every field of the snapshot was read in it.
LaterCycleEnded(n) ==
    /\ ~Fetching("media_player")
    /\ cycles["media_player"] > n
    /\ last_update_success["media_player"]
          => \A k \in KeySet : data_stamp["media_player"][k].cycle > n

\* C29: after a command's device call has returned, a fetch cycle that
\* starts after the call ends, so that the snapshot holds a read taken after
\* the write; for every command, "Night Mode" selected through
\* select_sound_mode and a client method called directly included.
C29_CycleAfterEveryCommand ==
    \A n \in 0..(MaxCycles - 1) : CallReturned(n) ~> LaterCycleEnded(n)

\* "Night Mode" was selected, no refresh requested, and a later cycle was
\* published.
C29_Witness ==
    /\ cmd.pc = "done"
    /\ cmd.path = "async_select_sound_mode"
    /\ cmd.sent # <<>>
    /\ ~cmd.requested
    /\ CycleEnded(MaxCycles)
    /\ \A k \in KeySet : data_stamp["media_player"][k].cycle = MaxCycles

-----------------------------------------------------------------------------
(* The claims about the switch platform and the config entry.              *)

\* The snapshot of the media player's first refresh lists nightMode.
FirstSnapshotListsNightMode ==
    /\ SnapshotListsNightMode
    /\ data_stamp["media_player"]["system_info"].cycle = 1

\* C31: under every interleaving of the three platform setups, when the
\* device's system_info lists nightMode at setup time the night-mode switch
\* is created, whether switch setup runs before or after the media player
\* has stored its coordinator.
C31_SwitchCreatedInAnyOrder ==
    (/\ setup["switch"] = "done"
     /\ setup["media_player"] = "done"
     /\ FirstSnapshotListsNightMode)
        => \E e \in entities : e.kind = "switch"

\* The stored coordinator has a snapshot whose system_info is absent: the key
\* is there and its value is None.
SystemInfoAbsent ==
    /\ hass_data # "none"
    /\ Truthy(data[hass_data])
    /\ "system_info" \in DOMAIN data[hass_data].v
    /\ data[hass_data].v["system_info"] = None

\* C32: switch platform setup never raises.  When the coordinator's snapshot
\* has system_info absent (the key present with value None), switch setup adds
\* no switch entity and completes without an exception.
C32_SwitchSetupNeverRaises ==
    [][(setup["switch"] = "pending" /\ setup'["switch"] # "pending" /\ SystemInfoAbsent)
          => (setup'["switch"] = "done" /\ entities' = entities)]_vars

\* C33: update listeners do not accumulate across reloads.  After any number
\* of option changes exactly one reload listener is registered for a set-up
\* entry, each option change causes exactly one unload followed by one setup,
\* and afterwards the entry's stored data holds one API client and the scan
\* interval of the latest options (10 when unset).
C33_ListenersDoNotAccumulate ==
    /\ \A e \in Entries : loaded[e] => update_listeners[e] = 1
    /\ changed.entry # "none" => (changed.unloads = 1 /\ changed.setups = 1)
    /\ \A e \in Entries :
          loaded[e] =>
             /\ e \in DOMAIN domain_data
             /\ domain_data[e].api = e
             /\ domain_data[e].scan_interval =
                    (IF options[e] = EmptyDict THEN 10 ELSE options[e].v["scan_interval"].v)

\* The services the integration documents as playback and sound controls.
ControlServices == Services \ {"power_off_system", "reboot_system"}

\* C34: a service invocation (set_volume, volume_up/down, play, pause, mute,
\* unmute, next, previous, set_night_mode, set_eq_preset, set_custom_eq)
\* issues exactly one corresponding device call on the API client of every
\* currently configured entry and none for an entry that has been unloaded;
\* with no configured entry it issues no call.
C34_ServiceCallsEveryEntry ==
    invoked.service \in ControlServices =>
        /\ Cardinality(invoked.calls) = Cardinality(invoked.configured)
        /\ \A e \in invoked.configured :
              \E c \in invoked.calls :
                  c.entry = e /\ c.method = ServiceMethods[invoked.service]

=============================================================================
